---- MODULE Spec2Model ----
(***************************************************************************)
(* Chronicle (src/app.py): the request handlers of the Flask application   *)
(* as a state machine over the relational store.  Every table is a         *)
(* function from primary keys to rows; every handler is one action that    *)
(* takes the authenticated principal and the request payload as inputs.    *)
(* The interleaved specifications split a handler at its commits.          *)
(***************************************************************************)
EXTENDS Integers, Sequences, FiniteSets, TLC

\* ---------------------------------------------------------------- bounds
\* Set and Rep rows ever inserted (the autoincrement counters are capped here).
MaxSets == 1
MaxReps == 3
\* Requests the interleaved specifications start.
MaxRequests == 2
\* Reps carried by one add_set payload.
MaxPayloadReps == MaxReps - 1

\* Python None / SQL NULL in a nullable numeric column (all real values >= 0).
NULL == -1

VARIABLES
  users,      \* User rows:     id -> [email, subscribed, subscription_type, ...]
  workouts,   \* Workout rows:  id -> [user_id, name, completed]
  sets,       \* Set rows:      id -> [workout_id, set_number, reps_completed, avg_*, ...]
  reps,       \* Rep rows:      id -> [set_id, rep_number, depth, velocity]
  programs,   \* Program rows:         id -> [coach_id, athlete_id, name]
  days,       \* ProgramDay rows:      id -> [program_id, day_number, name]
  exercises,  \* ProgramExercise rows: id -> [program_day_id, name, video_url, order]
  logs,       \* ProgramSetLog rows:   id -> [program_exercise_id, user_id, set_number, ...]
  writes,     \* the requests counted at their db.session.commit() so far
  invites,    \* CoachInvite rows:     id -> [coach_id, email, token, status, athlete_id]
  next_id,    \* the autoincrement counter of every table
  inflight,   \* requests between two of their commits (interleaved specifications)
  last,       \* the last response sent: [op, user, status, id, error, shown, login],
              \* id the row it found or made (0: none), user 0 an anonymous caller,
              \* shown the users whose data the body carries, login the user its
              \* cookie opens a session for (0: none)
  linked,     \* history: token -> the users process_join_invite linked through it
  delivered   \* history: email -> checkout-completed events processed for it

trackVars == <<workouts, sets, reps>>

progTables == <<programs, days, exercises, logs>>
progVars == <<progTables, writes>>

coachVars == <<invites, linked>>

billVars == <<delivered>>

vars == <<users, trackVars, progVars, coachVars, billVars, next_id, inflight, last>>

\* ---------------------------------------------------------------- users
\* User(email=...) with the column defaults of the model class.
\* User.height: db.Column(db.Integer, default=58)
DefaultHeight == 58

new_user(email) ==
  [email |-> email, subscribed |-> FALSE, subscription_type |-> "None",
   stripe_customer_id |-> "None", needs_password_setup |-> FALSE,
   is_coach |-> FALSE, coach_id |-> NULL,
   subscription_end_date |-> "None", height |-> DefaultHeight, name |-> "None",
   password_hash |-> "None", last_login |-> "None"]

\* user.set_password(password): the hash stands for the password it was made
\* from, the only one check_password accepts.
set_password(row, password) == [row EXCEPT !.password_hash = password]

\* user.check_password(password)
check_password(row, password) == row.password_hash = password

\* A user who registered with a password of its own.
registered(email) == set_password(new_user(email), "long-enough")

\* ------------------------------------------------------------- helpers
\* A table without the rows whose keys are in ids.
Without(table, ids) == [k \in DOMAIN table \ ids |-> table[k]]

\* A table with one more row.
Insert(table, id, row) == table @@ (id :> row)

Max(S) == CHOOSE m \in S : \A x \in S : x <= m

Min(S) == CHOOSE m \in S : \A x \in S : m <= x

RECURSIVE GCD(_, _)
GCD(a, b) == IF b = 0 THEN a ELSE GCD(b, a % b)

\* A Float column holding sum / n, kept exact as a fraction in lowest terms.
Frac(sum, n) == [num |-> sum \div GCD(sum, n), den |-> n \div GCD(sum, n)]

\* NULL in a Float column that holds a fraction.
NULLF == [num |-> 0, den |-> 0]

\* Python truthiness of an optional number: None and 0 are both falsy.
Truthy(v) == v # NULL /\ v # 0

RECURSIVE SumField(_, _, _)
SumField(f, ids, fld) ==
  IF ids = {} THEN 0
  ELSE LET i == CHOOSE x \in ids : TRUE
       IN  f[i][fld] + SumField(f, ids \ {i}, fld)

\* The response of a handler whose JSON body carries {'error': error}.
RespondError(op, u, status, id, error) ==
  last' = [op |-> op, user |-> u, status |-> status, id |-> id, error |-> error,
           shown |-> {}, login |-> 0]

\* The response of a handler that called login_user(x): its cookie carries a
\* session for user x.
RespondLogin(op, u, status, id, x) ==
  last' = [op |-> op, user |-> u, status |-> status, id |-> id, error |-> "",
           shown |-> {}, login |-> x]

\* The response of a coach endpoint whose JSON body carries the data of users.
RespondShowing(op, u, status, id, shown) ==
  last' = [op |-> op, user |-> u, status |-> status, id |-> id, error |-> "",
           shown |-> shown, login |-> 0]

\* The response of a handler; the text of an error is kept only where two
\* errors of one handler share a status code.
Respond(op, u, status, id) == RespondError(op, u, status, id, "")

\* ------------------------------------------------- aggregate recalculation
\* [r.get(fld) for r in reps if r.get(fld)]: the rows whose value is truthy.
truthy_rows(f, fld) == {i \in DOMAIN f : Truthy(f[i][fld])}

\* sum(xs) / len(xs) if xs else None
mean_or_none(f, ids, fld) ==
  IF ids = {} THEN NULLF ELSE Frac(SumField(f, ids, fld), Cardinality(ids))

\* min(xs) if xs else None
min_or_none(f, ids, fld) ==
  IF ids = {} THEN NULL ELSE Min({f[i][fld] : i \in ids})

\* max(xs) if xs else None
max_or_none(f, ids, fld) ==
  IF ids = {} THEN NULL ELSE Max({f[i][fld] : i \in ids})

\* The four aggregates as the handlers compute them from a collection of reps
\* (f is the payload's list of reps, or the Set's Rep rows).
recalculate(f) ==
  LET depths == truthy_rows(f, "depth")
      velocities == truthy_rows(f, "velocity")
  IN  [avg_depth |-> mean_or_none(f, depths, "depth"),
       avg_velocity |-> mean_or_none(f, velocities, "velocity"),
       min_velocity |-> min_or_none(f, velocities, "velocity"),
       max_velocity |-> max_or_none(f, velocities, "velocity")]

\* The Rep rows of a Set: workout_set.reps
RepsOf(rt, s) == {r \in DOMAIN rt : rt[r].set_id = s}

RepRows(rt, s) == [r \in RepsOf(rt, s) |-> rt[r]]

\* The Set rows of a Workout.
SetsOf(st, w) == {s \in DOMAIN st : st[s].workout_id = w}

WithAggregates(row, agg) ==
  [row EXCEPT !.avg_depth = agg.avg_depth, !.avg_velocity = agg.avg_velocity,
              !.min_velocity = agg.min_velocity, !.max_velocity = agg.max_velocity]

\* ------------------------------------------------------------- inputs
\* The reps a tracker payload can carry: a value present, absent or zero.
RepInputs ==
  { [velocity |-> 10, depth |-> NULL], [velocity |-> 20, depth |-> NULL],
    [velocity |-> NULL, depth |-> 5],  [velocity |-> 0, depth |-> 0] }

RECURSIVE SeqsUpTo(_, _)
SeqsUpTo(S, n) ==
  IF n = 0 THEN {<<>>}
  ELSE LET shorter == SeqsUpTo(S, n - 1)
       IN  shorter \cup {Append(q, x) : q \in {p \in shorter : Len(p) = n - 1}, x \in S}

\* The JSON bodies of POST /api/workouts/<id>/sets; empty is {} or no body.
SetPayloads ==
  { [empty |-> TRUE, reps |-> <<>>, reps_completed |-> NULL, fatigue_drop |-> NULL] }
  \cup
  { [empty |-> FALSE, reps |-> q, reps_completed |-> rc, fatigue_drop |-> fd] :
      q \in SeqsUpTo(RepInputs, MaxPayloadReps), rc \in {NULL, 5}, fd \in {NULL} }

\* A request that fails its lookup or owner check is answered whatever its
\* body: one body stands for all of them.
BodiesFor(passes, bodies) == IF passes THEN bodies ELSE {CHOOSE d \in bodies : TRUE}

\* The JSON bodies of POST /api/sets/<id>/reps: only depth reaches the row.
RepPayloads == { [depth |-> d] : d \in {NULL, 5} }

\* The ids a request can name: every row's id, and one id that names no row.
WorkoutIds == DOMAIN workouts \cup {next_id.workout}
SetIds == DOMAIN sets \cup {next_id.set}
RepIds == DOMAIN reps \cup {next_id.rep}

\* The requests of a run that reach db.session.commit().
MaxWrites == 4

\* An early return: the response, and nothing committed.
reject(op, u, status, id) == Respond(op, u, status, id) /\ UNCHANGED writes

\* db.session.commit() and the response that follows it.
commit(op, u, status, id) ==
  /\ writes < MaxWrites
  /\ writes' = writes + 1
  /\ Respond(op, u, status, id)

\* --------------------------------------------------- workout tracking
\* Workout(user_id=current_user.id, name=data.get('name', 'Squat Session')),
\* completed_at empty.
new_workout(u) == [user_id |-> u, name |-> "Squat Session", completed |-> FALSE]

\* Mutant: the workout looked up by its id alone.
own_workout_any_user(u, w) == w \in DOMAIN workouts

\* The owner check shared by the workout handlers:
\* Workout.query.filter_by(id=workout_id, user_id=current_user.id).first()
own_workout(u, w) == w \in DOMAIN workouts /\ workouts[w].user_id = u

\* set_number = (last_set.set_number + 1) if last_set else 1
next_set_number(st, w) ==
  IF SetsOf(st, w) = {} THEN 1 ELSE Max({st[s].set_number : s \in SetsOf(st, w)}) + 1

\* The Set row add_set builds from the payload.
new_set_row(w, set_number, data) ==
  WithAggregates(
    [workout_id |-> w, set_number |-> set_number,
     reps_completed |-> IF data.reps_completed # NULL THEN data.reps_completed
                        ELSE Len(data.reps),
     avg_depth |-> NULLF, avg_velocity |-> NULLF,
     min_velocity |-> NULL, max_velocity |-> NULL,
     fatigue_drop |-> data.fatigue_drop],
    recalculate(data.reps))

\* The Rep rows add_set inserts: rep_number = i + 1 for the i-th payload rep.
new_rep_rows(sid, first_id, reps_data) ==
  [r \in first_id .. first_id + Len(reps_data) - 1 |->
     [set_id |-> sid, rep_number |-> r - first_id + 1,
      depth |-> reps_data[r - first_id + 1].depth,
      velocity |-> reps_data[r - first_id + 1].velocity]]

\* The database effect of add_set once set_number is known (one transaction).
insert_set(w, set_number, data) ==
  /\ sets' = Insert(sets, next_id.set, new_set_row(w, set_number, data))
  /\ reps' = reps @@ new_rep_rows(next_id.set, next_id.rep, data.reps)
  /\ next_id' = [next_id EXCEPT !.set = @ + 1, !.rep = @ + Len(data.reps)]

\* POST /api/workouts/<workout_id>/sets
add_set(u, w, data) ==
  /\ u \in DOMAIN users
  /\ IF ~own_workout(u, w)
     THEN reject("add_set", u, 404, 0) /\ UNCHANGED <<sets, reps, next_id>>
     ELSE IF data.empty
     THEN reject("add_set", u, 400, w) /\ UNCHANGED <<sets, reps, next_id>>
     ELSE /\ next_id.set <= MaxSets
          /\ next_id.rep + Len(data.reps) - 1 <= MaxReps
          /\ insert_set(w, next_set_number(sets, w), data)
          /\ commit("add_set", u, 201, next_id.set)
  /\ UNCHANGED <<users, workouts, progTables, coachVars, billVars, inflight>>

\* next rep number: (last_rep.rep_number + 1) if last_rep else 1
next_rep_number(rt, s) ==
  IF RepsOf(rt, s) = {} THEN 1 ELSE Max({rt[r].rep_number : r \in RepsOf(rt, s)}) + 1

\* Rep(set_id, rep_number, depth, quality): velocity is not settable here.
new_rep_row(s, rep_number, data) ==
  [set_id |-> s, rep_number |-> rep_number, depth |-> data.depth, velocity |-> NULL]

\* workout_set.reps.count() + 1, evaluated after db.session.add(rep): the
\* dynamic relationship flushes the session before it counts, so the pending
\* Rep is already among the rows counted (rt is the Rep table after the add).
reps_completed_after_add(rt, s) == Cardinality(RepsOf(rt, s)) + 1

\* max(0, workout_set.reps_completed - 1)
reps_completed_after_delete(rc) == IF rc - 1 > 0 THEN rc - 1 ELSE 0

\* The Set table after the second commit of add_rep_to_set.
sets_recalculated(st, rt, s) ==
  [st EXCEPT ![s] = WithAggregates(@, recalculate(RepRows(rt, s)))]

\* Mutant: the recalculation without its else branch.
recalc_after_delete_no_else(row, rows) ==
  IF DOMAIN rows # {} THEN WithAggregates(row, recalculate(rows)) ELSE row

\* The recalculation of delete_rep_from_set: `if reps: ... else: all None`.
recalc_after_delete(row, rows) ==
  IF DOMAIN rows # {}
  THEN WithAggregates(row, recalculate(rows))
  ELSE WithAggregates(row, [avg_depth |-> NULLF, avg_velocity |-> NULLF,
                            min_velocity |-> NULL, max_velocity |-> NULL])

\* The owner check of the set handlers: workout_set.workout.user_id
owns_set(u, s) == workouts[sets[s].workout_id].user_id = u

\* POST /api/sets/<set_id>/reps
add_rep_to_set(u, s, data) ==
  /\ u \in DOMAIN users
  /\ IF s \notin DOMAIN sets
     THEN reject("add_rep_to_set", u, 404, 0) /\ UNCHANGED <<sets, reps, next_id>>
     ELSE IF ~owns_set(u, s)
     THEN reject("add_rep_to_set", u, 403, s) /\ UNCHANGED <<sets, reps, next_id>>
     ELSE /\ next_id.rep <= MaxReps
          /\ LET rt == Insert(reps, next_id.rep,
                              new_rep_row(s, next_rep_number(reps, s), data))
                 st == [sets EXCEPT ![s].reps_completed = reps_completed_after_add(rt, s)]
             IN  /\ reps' = rt
                 /\ sets' = sets_recalculated(st, rt, s)
          /\ next_id' = [next_id EXCEPT !.rep = @ + 1]
          /\ commit("add_rep_to_set", u, 201, s)
  /\ UNCHANGED <<users, workouts, progTables, coachVars, billVars, inflight>>

\* DELETE /api/sets/<set_id>/reps/<rep_id>
delete_rep_from_set(u, s, r) ==
  /\ u \in DOMAIN users
  /\ IF s \notin DOMAIN sets
     THEN reject("delete_rep_from_set", u, 404, 0) /\ UNCHANGED <<sets, reps>>
     ELSE IF ~owns_set(u, s)
     THEN reject("delete_rep_from_set", u, 403, s) /\ UNCHANGED <<sets, reps>>
     ELSE IF ~(r \in DOMAIN reps /\ reps[r].set_id = s)
     THEN reject("delete_rep_from_set", u, 404, 0) /\ UNCHANGED <<sets, reps>>
     ELSE LET rt == Without(reps, {r})
              st == [sets EXCEPT ![s].reps_completed = reps_completed_after_delete(@)]
          IN  /\ reps' = rt
              /\ sets' = [st EXCEPT ![s] = recalc_after_delete(@, RepRows(rt, s))]
              /\ commit("delete_rep_from_set", u, 200, s)
  /\ UNCHANGED <<users, workouts, progTables, coachVars, billVars, next_id, inflight>>

\* ------------------------------------------------------- specification
\* One registered user with a workout in progress (register, create_workout).
InitUsers == (1 :> registered("jane@x.com"))

NoResponse ==
  [op |-> "none", user |-> 0, status |-> 0, id |-> 0, error |-> "", shown |-> {},
   login |-> 0]

\* The autoincrement counters of empty tables.
InitIds ==
  [workout |-> 1, set |-> 1, rep |-> 1, program |-> 1, day |-> 1, exercise |-> 1,
   log |-> 1, invite |-> 1, user |-> 1, request |-> 1]

\* The tables a specification leaves empty.
NoTracking == workouts = <<>> /\ sets = <<>> /\ reps = <<>>

NoPrograms ==
  programs = <<>> /\ days = <<>> /\ exercises = <<>> /\ logs = <<>> /\ writes = 0

NoInvites == invites = <<>>

NoHistory == linked = <<>> /\ delivered = <<>>

Init ==
  /\ users = InitUsers
  /\ workouts = (1 :> new_workout(1))
  /\ sets = <<>>
  /\ reps = <<>>
  /\ next_id = [InitIds EXCEPT !.workout = 2]
  /\ NoPrograms
  /\ NoInvites
  /\ inflight = <<>>
  /\ last = NoResponse
  /\ NoHistory

\* Every handler runs from request to response without interleaving.
Next ==
  \/ \E u \in DOMAIN users, w \in WorkoutIds :
       \E data \in BodiesFor(own_workout(u, w), SetPayloads) : add_set(u, w, data)
  \/ \E u \in DOMAIN users, s \in SetIds, data \in RepPayloads : add_rep_to_set(u, s, data)
  \/ \E u \in DOMAIN users, s \in SetIds, r \in RepIds : delete_rep_from_set(u, s, r)

Spec == Init /\ [][Next]_vars

\* ------------------------------------------ interleaved workout tracking
\* A request between two of its commits: the handler's local variables.
Started(op, u, pc, target, number, data) ==
  /\ next_id.request <= MaxRequests
  /\ inflight' = Insert(inflight, next_id.request,
                        [op |-> op, user |-> u, pc |-> pc, target |-> target,
                         number |-> number, data |-> data])

At(q, op, pc) == q \in DOMAIN inflight /\ inflight[q].op = op /\ inflight[q].pc = pc

\* add_set up to the query for the last set number.
add_set_query(u, w, data) ==
  /\ u \in DOMAIN users
  /\ IF ~own_workout(u, w)
     THEN Respond("add_set", u, 404, 0) /\ UNCHANGED <<inflight, next_id>>
     ELSE IF data.empty
     THEN Respond("add_set", u, 400, w) /\ UNCHANGED <<inflight, next_id>>
     ELSE /\ Started("add_set", u, "insert", w, next_set_number(sets, w), data)
          /\ next_id' = [next_id EXCEPT !.request = @ + 1]
          /\ UNCHANGED last
  /\ UNCHANGED <<users, workouts, progVars, coachVars, billVars, sets, reps>>

\* add_set from the construction of the Set to its commit.
add_set_commit(q) ==
  /\ At(q, "add_set", "insert")
  /\ insert_set(inflight[q].target, inflight[q].number, inflight[q].data)
  /\ Respond("add_set", inflight[q].user, 201, next_id.set)
  /\ inflight' = Without(inflight, {q})
  /\ UNCHANGED <<users, workouts, progVars, coachVars, billVars>>

\* add_rep_to_set up to the query for the last rep number.
add_rep_to_set_query(u, s, data) ==
  /\ u \in DOMAIN users
  /\ IF s \notin DOMAIN sets
     THEN Respond("add_rep_to_set", u, 404, 0) /\ UNCHANGED <<inflight, next_id>>
     ELSE IF ~owns_set(u, s)
     THEN Respond("add_rep_to_set", u, 403, s) /\ UNCHANGED <<inflight, next_id>>
     ELSE /\ Started("add_rep_to_set", u, "insert", s, next_rep_number(reps, s), data)
          /\ next_id' = [next_id EXCEPT !.request = @ + 1]
          /\ UNCHANGED last
  /\ UNCHANGED <<users, workouts, progVars, coachVars, billVars, sets, reps>>

\* add_rep_to_set from db.session.add(rep) to the first commit.
add_rep_to_set_insert(q) ==
  /\ At(q, "add_rep_to_set", "insert")
  /\ LET s == inflight[q].target
         rt == Insert(reps, next_id.rep, new_rep_row(s, inflight[q].number, inflight[q].data))
     IN  /\ reps' = rt
         /\ sets' = [sets EXCEPT ![s].reps_completed = reps_completed_after_add(rt, s)]
  /\ next_id' = [next_id EXCEPT !.rep = @ + 1]
  /\ inflight' = [inflight EXCEPT ![q].pc = "recalculate"]
  /\ UNCHANGED <<users, workouts, progVars, coachVars, billVars, last>>

\* add_rep_to_set from the recalculation to the second commit.
add_rep_to_set_recalculate(q) ==
  /\ At(q, "add_rep_to_set", "recalculate")
  /\ sets' = sets_recalculated(sets, reps, inflight[q].target)
  /\ Respond("add_rep_to_set", inflight[q].user, 201, inflight[q].target)
  /\ inflight' = Without(inflight, {q})
  /\ UNCHANGED <<users, workouts, progVars, coachVars, billVars, reps, next_id>>

\* delete_rep_from_set up to the first commit.
delete_rep_from_set_delete(u, s, r) ==
  /\ u \in DOMAIN users
  /\ IF s \notin DOMAIN sets
     THEN Respond("delete_rep_from_set", u, 404, 0) /\ UNCHANGED <<sets, reps, inflight, next_id>>
     ELSE IF ~owns_set(u, s)
     THEN Respond("delete_rep_from_set", u, 403, s) /\ UNCHANGED <<sets, reps, inflight, next_id>>
     ELSE IF ~(r \in DOMAIN reps /\ reps[r].set_id = s)
     THEN Respond("delete_rep_from_set", u, 404, 0) /\ UNCHANGED <<sets, reps, inflight, next_id>>
     ELSE /\ Started("delete_rep_from_set", u, "recalculate", s, r, [depth |-> NULL])
          /\ next_id' = [next_id EXCEPT !.request = @ + 1]
          /\ reps' = Without(reps, {r})
          /\ sets' = [sets EXCEPT ![s].reps_completed = reps_completed_after_delete(@)]
          /\ UNCHANGED last
  /\ UNCHANGED <<users, workouts, progVars, coachVars, billVars>>

\* delete_rep_from_set from the recalculation to the second commit.
delete_rep_from_set_recalculate(q) ==
  /\ At(q, "delete_rep_from_set", "recalculate")
  /\ LET s == inflight[q].target
     IN  sets' = [sets EXCEPT ![s] = recalc_after_delete(@, RepRows(reps, s))]
  /\ Respond("delete_rep_from_set", inflight[q].user, 200, inflight[q].target)
  /\ inflight' = Without(inflight, {q})
  /\ UNCHANGED <<users, workouts, progVars, coachVars, billVars, reps, next_id>>

\* Requests of several workers interleave at their queries and commits.
NextInterleaved ==
  \/ \E u \in DOMAIN users, w \in WorkoutIds :
       \E data \in BodiesFor(own_workout(u, w), SetPayloads) : add_set_query(u, w, data)
  \/ \E q \in DOMAIN inflight : add_set_commit(q)
  \/ \E u \in DOMAIN users, s \in SetIds, data \in RepPayloads : add_rep_to_set_query(u, s, data)
  \/ \E q \in DOMAIN inflight : add_rep_to_set_insert(q)
  \/ \E q \in DOMAIN inflight : add_rep_to_set_recalculate(q)
  \/ \E u \in DOMAIN users, s \in SetIds, r \in RepIds : delete_rep_from_set_delete(u, s, r)
  \/ \E q \in DOMAIN inflight : delete_rep_from_set_recalculate(q)

SpecInterleaved == Init /\ [][NextInterleaved]_vars

\* ------------------------------------------------------------ programs
\* A key the JSON body does not carry ("None" is a null value).
Absent == "absent"

ProgramIds == DOMAIN programs \cup {next_id.program}
DayIds == DOMAIN days \cup {next_id.day}
ExerciseIds == DOMAIN exercises \cup {next_id.exercise}

DaysOf(dt, p) == {d \in DOMAIN dt : dt[d].program_id = p}

ExercisesOf(et, ds) == {e \in DOMAIN et : et[e].program_day_id \in ds}

LogsOf(lt, es) == {l \in DOMAIN lt : lt[l].program_exercise_id \in es}

\* Mutant: the read-access check of get_program used for writing.
may_write_program_as_reader(p, u) ==
  programs[p].athlete_id = u \/ programs[p].coach_id = u

\* update_program, delete_program: only the coach, or the owner of a
\* self-created program; the negation of the two 403 conditions.
may_write_program(p, u) ==
  /\ ~(Truthy(programs[p].coach_id) /\ programs[p].coach_id # u)
  /\ ~(~Truthy(programs[p].coach_id) /\ programs[p].athlete_id # u)

\* can_edit of the day and exercise handlers.
can_edit(p, u) ==
  \/ programs[p].coach_id = u
  \/ (~Truthy(programs[p].coach_id) /\ programs[p].athlete_id = u)

\* Mutant: anyone may set a video URL.
may_set_video_anyone(u) == TRUE

\* `current_user.is_coach and ...`: only coaches can set video URLs.
may_set_video(u) == users[u].is_coach

\* The bodies of POST /api/programs.
ProgramPayloads == { [athlete_id |-> a] : a \in {NULL} \cup DOMAIN users }

\* The bodies of PUT /api/programs/<id> and PUT .../days/<id>.
NamePayloads == { [name |-> n] : n \in {Absent, "b"} }

\* The bodies of POST /api/program-days/<id>/exercises.
NewExercisePayloads == { [video_url |-> v] : v \in {Absent, "", "v1"} }

\* Python truthiness of an optional string: a missing key, None and "" are falsy.
TruthyStr(v) == v \notin {Absent, "None", ""}

\* The bodies of PUT /api/exercises/<id>: "c" comes with a video_url.
ExercisePayloads ==
  { [name |-> "b", video_url |-> Absent], [name |-> "c", video_url |-> "v2"],
    [name |-> Absent, video_url |-> "v2"] }

\* The bodies of POST /api/exercises/<id>/log.
LogPayloads ==
  { [set_number |-> NULL, velocity_tracked |-> FALSE, workout_set_id |-> NULL] }

\* Mutant: the athlete looked up by its id alone.
athlete_of_any_coach(ut, coach, a) == a \in DOMAIN ut

\* User.query.filter_by(id=athlete_id, coach_id=current_user.id).first()
athlete_of(ut, coach, a) == a \in DOMAIN ut /\ ut[a].coach_id = coach

\* POST /api/programs
create_program(u, data) ==
  /\ u \in DOMAIN users
  /\ IF users[u].is_coach /\ ~Truthy(data.athlete_id)
     THEN reject("create_program", u, 400, 0) /\ UNCHANGED <<programs, next_id>>
     ELSE IF users[u].is_coach /\ ~athlete_of(users, u, data.athlete_id)
     THEN reject("create_program", u, 404, 0) /\ UNCHANGED <<programs, next_id>>
     ELSE /\ programs' = Insert(programs, next_id.program,
               IF users[u].is_coach
               THEN [coach_id |-> u, athlete_id |-> data.athlete_id, name |-> "a"]
               ELSE [coach_id |-> NULL, athlete_id |-> u, name |-> "a"])
          /\ next_id' = [next_id EXCEPT !.program = @ + 1]
          /\ commit("create_program", u, 201, next_id.program)
  /\ UNCHANGED <<users, trackVars, days, exercises, logs, coachVars, billVars, inflight>>

\* PUT /api/programs/<program_id>: name stands for name, description and
\* is_active, which are assigned under the same two checks.
update_program(u, p, data) ==
  /\ u \in DOMAIN users
  /\ IF p \notin DOMAIN programs
     THEN reject("update_program", u, 404, 0) /\ UNCHANGED programs
     ELSE IF ~may_write_program(p, u)
     THEN reject("update_program", u, 403, p) /\ UNCHANGED programs
     ELSE /\ programs' = IF data.name # Absent
                         THEN [programs EXCEPT ![p].name = data.name] ELSE programs
          /\ commit("update_program", u, 200, p)
  /\ UNCHANGED <<users, trackVars, days, exercises, logs, coachVars, billVars, next_id, inflight>>

\* DELETE /api/programs/<program_id>, with the delete-orphan cascades
\* Program.days, ProgramDay.exercises, ProgramExercise.set_logs.
delete_program(u, p) ==
  /\ u \in DOMAIN users
  /\ IF p \notin DOMAIN programs
     THEN reject("delete_program", u, 404, 0) /\ UNCHANGED progTables
     ELSE IF ~may_write_program(p, u)
     THEN reject("delete_program", u, 403, p) /\ UNCHANGED progTables
     ELSE LET ds == DaysOf(days, p)
              es == ExercisesOf(exercises, ds)
          IN  /\ programs' = Without(programs, {p})
              /\ days' = Without(days, ds)
              /\ exercises' = Without(exercises, es)
              /\ logs' = Without(logs, LogsOf(logs, es))
              /\ commit("delete_program", u, 200, p)
  /\ UNCHANGED <<users, trackVars, coachVars, billVars, next_id, inflight>>

\* day_number = (last_day.day_number + 1) if last_day else 1
next_day_number(dt, p) ==
  IF DaysOf(dt, p) = {} THEN 1 ELSE Max({dt[d].day_number : d \in DaysOf(dt, p)}) + 1

\* POST /api/programs/<program_id>/days
add_program_day(u, p) ==
  /\ u \in DOMAIN users
  /\ IF p \notin DOMAIN programs
     THEN reject("add_program_day", u, 404, 0) /\ UNCHANGED <<days, next_id>>
     ELSE IF ~can_edit(p, u)
     THEN reject("add_program_day", u, 403, p) /\ UNCHANGED <<days, next_id>>
     ELSE /\ days' = Insert(days, next_id.day,
               [program_id |-> p, day_number |-> next_day_number(days, p), name |-> "a"])
          /\ next_id' = [next_id EXCEPT !.day = @ + 1]
          /\ commit("add_program_day", u, 201, next_id.day)
  /\ UNCHANGED <<users, trackVars, programs, exercises, logs, coachVars, billVars, inflight>>

\* ProgramDay.query.filter_by(id=day_id, program_id=program_id).first()
day_of_program(p, d) == d \in DOMAIN days /\ days[d].program_id = p

\* PUT /api/programs/<program_id>/days/<day_id>
update_program_day(u, p, d, data) ==
  /\ u \in DOMAIN users
  /\ IF ~day_of_program(p, d)
     THEN reject("update_program_day", u, 404, 0) /\ UNCHANGED days
     ELSE IF ~can_edit(days[d].program_id, u)
     THEN reject("update_program_day", u, 403, d) /\ UNCHANGED days
     ELSE /\ days' = IF data.name # Absent
                     THEN [days EXCEPT ![d].name = data.name] ELSE days
          /\ commit("update_program_day", u, 200, d)
  /\ UNCHANGED <<users, trackVars, programs, exercises, logs, coachVars, billVars, next_id, inflight>>

\* DELETE /api/programs/<program_id>/days/<day_id>
delete_program_day(u, p, d) ==
  /\ u \in DOMAIN users
  /\ IF ~day_of_program(p, d)
     THEN reject("delete_program_day", u, 404, 0) /\ UNCHANGED <<days, exercises, logs>>
     ELSE IF ~can_edit(days[d].program_id, u)
     THEN reject("delete_program_day", u, 403, d) /\ UNCHANGED <<days, exercises, logs>>
     ELSE LET es == ExercisesOf(exercises, {d})
          IN  /\ days' = Without(days, {d})
              /\ exercises' = Without(exercises, es)
              /\ logs' = Without(logs, LogsOf(logs, es))
              /\ commit("delete_program_day", u, 200, d)
  /\ UNCHANGED <<users, trackVars, programs, coachVars, billVars, next_id, inflight>>

\* order = (last_ex.order + 1) if last_ex else 0
next_order(et, d) ==
  IF ExercisesOf(et, {d}) = {} THEN 0
  ELSE Max({et[e].order : e \in ExercisesOf(et, {d})}) + 1

\* The row add_exercise inserts: video_url only from a coach, and only a
\* truthy one (data.get('video_url')).
new_exercise_row(u, d, data) ==
  [program_day_id |-> d, name |-> "a", order |-> next_order(exercises, d),
   video_url |-> IF may_set_video(u) /\ TruthyStr(data.video_url)
                 THEN data.video_url ELSE "None"]

\* POST /api/program-days/<day_id>/exercises
add_exercise(u, d, data) ==
  /\ u \in DOMAIN users
  /\ IF d \notin DOMAIN days
     THEN reject("add_exercise", u, 404, 0) /\ UNCHANGED <<exercises, next_id>>
     ELSE IF ~can_edit(days[d].program_id, u)
     THEN reject("add_exercise", u, 403, d) /\ UNCHANGED <<exercises, next_id>>
     ELSE /\ exercises' = Insert(exercises, next_id.exercise, new_exercise_row(u, d, data))
          /\ next_id' = [next_id EXCEPT !.exercise = @ + 1]
          /\ commit("add_exercise", u, 201, next_id.exercise)
  /\ UNCHANGED <<users, trackVars, programs, days, logs, coachVars, billVars, inflight>>

\* exercise.day.program
program_of_exercise(e) == days[exercises[e].program_day_id].program_id

\* The row update_exercise leaves: the listed fields (name stands for them)
\* from the body, video_url only from a coach.
updated_exercise_row(u, row, data) ==
  [row EXCEPT !.name = IF data.name # Absent THEN data.name ELSE @,
              !.video_url = IF may_set_video(u) /\ data.video_url # Absent
                            THEN data.video_url ELSE @]

\* PUT /api/exercises/<exercise_id>
update_exercise(u, e, data) ==
  /\ u \in DOMAIN users
  /\ IF e \notin DOMAIN exercises
     THEN reject("update_exercise", u, 404, 0) /\ UNCHANGED exercises
     ELSE IF ~can_edit(program_of_exercise(e), u)
     THEN reject("update_exercise", u, 403, e) /\ UNCHANGED exercises
     ELSE /\ exercises' = [exercises EXCEPT ![e] = updated_exercise_row(u, @, data)]
          /\ commit("update_exercise", u, 200, e)
  /\ UNCHANGED <<users, trackVars, programs, days, logs, coachVars, billVars, next_id, inflight>>

\* DELETE /api/exercises/<exercise_id>
delete_exercise(u, e) ==
  /\ u \in DOMAIN users
  /\ IF e \notin DOMAIN exercises
     THEN reject("delete_exercise", u, 404, 0) /\ UNCHANGED <<exercises, logs>>
     ELSE IF ~can_edit(program_of_exercise(e), u)
     THEN reject("delete_exercise", u, 403, e) /\ UNCHANGED <<exercises, logs>>
     ELSE /\ exercises' = Without(exercises, {e})
          /\ logs' = Without(logs, LogsOf(logs, {e}))
          /\ commit("delete_exercise", u, 200, e)
  /\ UNCHANGED <<users, trackVars, programs, days, coachVars, billVars, next_id, inflight>>

\* data.get('set_number', (last_log.set_number + 1) if last_log else 1)
log_set_number(u, e, data) ==
  LET mine == {l \in LogsOf(logs, {e}) : logs[l].user_id = u}
  IN  IF data.set_number # NULL THEN data.set_number
      ELSE IF mine = {} THEN 1
      ELSE Max({logs[l].set_number : l \in mine}) + 1

\* Only the athlete can log sets.
may_log_set(p, u) == programs[p].athlete_id = u

\* POST /api/exercises/<exercise_id>/log
log_set(u, e, data) ==
  /\ u \in DOMAIN users
  /\ IF e \notin DOMAIN exercises
     THEN reject("log_set", u, 404, 0) /\ UNCHANGED <<logs, next_id>>
     ELSE IF ~may_log_set(program_of_exercise(e), u)
     THEN reject("log_set", u, 403, e) /\ UNCHANGED <<logs, next_id>>
     ELSE /\ logs' = Insert(logs, next_id.log,
               [program_exercise_id |-> e, user_id |-> u,
                set_number |-> log_set_number(u, e, data),
                velocity_tracked |-> data.velocity_tracked,
                workout_set_id |-> data.workout_set_id])
          /\ next_id' = [next_id EXCEPT !.log = @ + 1]
          /\ commit("log_set", u, 201, e)
  /\ UNCHANGED <<users, trackVars, programs, days, exercises, coachVars, billVars, inflight>>

\* --------------------------------------------------------- access codes
\* The codes the deployment configures (ACCESS_CODE, COACH_CODE).
ACCESS_CODE == "Lift4Life"
COACH_CODE == "CoachUp"

\* str.upper() on the codes a request can carry.
upper(c) ==
  CASE c \in {"Lift4Life", "lift4life", "LIFT4LIFE"} -> "LIFT4LIFE"
    [] c \in {"CoachUp", "coachup", "COACHUP"} -> "COACHUP"
    [] c = "nope" -> "NOPE"
    [] OTHER -> c

CodeInputs == {"", "nope", "lift4life", "CoachUp"}

\* POST /code
access_code(u, code) ==
  /\ u \in DOMAIN users
  /\ IF users[u].subscribed
     THEN reject("access_code", u, 302, 0) /\ UNCHANGED users
     ELSE IF upper(code) = ""
     THEN reject("access_code", u, 400, 0) /\ UNCHANGED users
     ELSE IF upper(code) = upper(ACCESS_CODE)
     THEN /\ users' = [users EXCEPT ![u].subscribed = TRUE,
                                    ![u].subscription_type = "lifetime"]
          /\ commit("access_code", u, 200, u)
     ELSE IF upper(code) = upper(COACH_CODE)
     THEN /\ users' = [users EXCEPT ![u].subscribed = TRUE,
                                    ![u].subscription_type = "lifetime",
                                    ![u].is_coach = TRUE]
          /\ commit("access_code", u, 200, u)
     ELSE reject("access_code", u, 401, 0) /\ UNCHANGED users
  /\ UNCHANGED <<trackVars, progTables, coachVars, billVars, next_id, inflight>>

\* A coach (register, coach code) and her athlete (register, add_athlete);
\* no program yet.
InitProgramUsers ==
  (1 :> [registered("coach@x.com") EXCEPT !.subscribed = TRUE,
           !.subscription_type = "lifetime", !.is_coach = TRUE])
  @@ (2 :> [registered("jane@x.com") EXCEPT !.coach_id = 1])

InitPrograms ==
  /\ users = InitProgramUsers
  /\ NoTracking
  /\ NoPrograms
  /\ NoInvites
  /\ next_id = [InitIds EXCEPT !.user = 3]
  /\ inflight = <<>>
  /\ last = NoResponse
  /\ NoHistory

NextPrograms ==
  \/ \E u \in DOMAIN users, code \in CodeInputs : access_code(u, code)
  \/ \E u \in DOMAIN users, data \in ProgramPayloads : create_program(u, data)
  \/ \E u \in DOMAIN users, p \in ProgramIds :
       \E data \in BodiesFor(p \in DOMAIN programs /\ may_write_program(p, u), NamePayloads) :
         update_program(u, p, data)
  \/ \E u \in DOMAIN users, p \in ProgramIds : delete_program(u, p)
  \/ \E u \in DOMAIN users, p \in ProgramIds : add_program_day(u, p)
  \/ \E u \in DOMAIN users, p \in ProgramIds, d \in DayIds :
       \E data \in BodiesFor(day_of_program(p, d) /\ can_edit(p, u), NamePayloads) :
         update_program_day(u, p, d, data)
  \/ \E u \in DOMAIN users, p \in ProgramIds, d \in DayIds : delete_program_day(u, p, d)
  \/ \E u \in DOMAIN users, d \in DayIds :
       \E data \in BodiesFor(d \in DOMAIN days /\ can_edit(days[d].program_id, u),
                              NewExercisePayloads) :
         add_exercise(u, d, data)
  \/ \E u \in DOMAIN users, e \in ExerciseIds :
       \E data \in BodiesFor(e \in DOMAIN exercises /\ can_edit(program_of_exercise(e), u),
                              ExercisePayloads) :
         update_exercise(u, e, data)
  \/ \E u \in DOMAIN users, e \in ExerciseIds : delete_exercise(u, e)
  \/ \E u \in DOMAIN users, e \in ExerciseIds, data \in LogPayloads : log_set(u, e, data)

SpecPrograms == InitPrograms /\ [][NextPrograms]_vars

\* ------------------------------------------------------------- invites
\* CoachInvite rows ever inserted.
MaxInvites == 2

\* str.lower() and str.strip() on the e-mail addresses a request can carry.
lower(e) ==
  CASE e = "Jane@X.com" -> "jane@x.com"
    [] e = "Jane@X.com " -> "jane@x.com "
    [] OTHER -> e

strip(e) ==
  CASE e = "Jane@X.com " -> "Jane@X.com"
    [] e = "jane@x.com " -> "jane@x.com"
    [] e = " " -> ""
    [] OTHER -> e

\* len(password)
len(password) == Len(password)

\* The bodies of POST /api/coach/invite.
InvitePayloads == { [email |-> e] : e \in {"", "Jane@X.com ", "new@x.com"} }

\* The bodies of POST /join/<token>.
JoinPayloads ==
  { [email |-> e, password |-> pw] :
      e \in {"", "Jane@X.com ", "new@x.com"}, pw \in {"", "short", "long-enough"} }

\* The tokens a request can name: every invite's token, and one no invite has.
TokenInputs == {invites[i].token : i \in DOMAIN invites} \cup {0}

InviteIds == DOMAIN invites \cup {next_id.invite}

\* User.query.filter_by(email=email)
find_user_by_email(ut, email) == {u \in DOMAIN ut : ut[u].email = email}

\* CoachInvite.query.filter_by(coach_id=..., email=..., status='pending')
pending_invite_of(it, coach, email) ==
  {i \in DOMAIN it : it[i].coach_id = coach /\ it[i].email = email /\ it[i].status = "pending"}

\* POST /api/coach/invite: secrets.token_urlsafe gives every invite a token of
\* its own, here the number of the invite.
create_invite(u, data) ==
  /\ u \in DOMAIN users
  /\ LET email == strip(lower(data.email))
         existing_user == find_user_by_email(users, email)
         existing_invite == pending_invite_of(invites, u, email)
     IN  IF ~users[u].is_coach
         THEN Respond("create_invite", u, 403, 0) /\ UNCHANGED <<invites, next_id>>
         ELSE IF email = ""
         THEN RespondError("create_invite", u, 400, 0, "Email required")
              /\ UNCHANGED <<invites, next_id>>
         ELSE IF \E x \in existing_user : users[x].coach_id = u
         THEN RespondError("create_invite", u, 400, 0, "This athlete is already linked to you")
              /\ UNCHANGED <<invites, next_id>>
         ELSE IF existing_invite # {}
         THEN Respond("create_invite", u, 200, CHOOSE i \in existing_invite : TRUE)
              /\ UNCHANGED <<invites, next_id>>
         ELSE /\ next_id.invite <= MaxInvites
              /\ invites' = Insert(invites, next_id.invite,
                   [coach_id |-> u, email |-> email, token |-> next_id.invite,
                    status |-> "pending", athlete_id |-> NULL])
              /\ next_id' = [next_id EXCEPT !.invite = @ + 1]
              /\ Respond("create_invite", u, 201, next_id.invite)
  /\ UNCHANGED <<users, trackVars, progVars, linked, billVars, inflight>>

\* DELETE /api/coach/invites/<invite_id>
delete_invite(u, i) ==
  /\ u \in DOMAIN users
  /\ IF ~users[u].is_coach
     THEN Respond("delete_invite", u, 403, 0) /\ UNCHANGED invites
     ELSE IF ~(i \in DOMAIN invites /\ invites[i].coach_id = u)
     THEN Respond("delete_invite", u, 404, 0) /\ UNCHANGED invites
     ELSE invites' = Without(invites, {i}) /\ Respond("delete_invite", u, 200, i)
  /\ UNCHANGED <<users, trackVars, progVars, linked, billVars, next_id, inflight>>

\* Mutant: the invite looked up by its token alone.
invite_by_token(it, token) == {i \in DOMAIN it : it[i].token = token}

\* CoachInvite.query.filter_by(token=token, status='pending')
pending_invite(it, token) ==
  {i \in DOMAIN it : it[i].token = token /\ it[i].status = "pending"}

\* Mutant: no look at the coach the account already has.
join_error_any_coach(ut, coach, data) ==
  LET email == strip(lower(data.email))
  IN  IF email = "" \/ data.password = "" THEN "Email and password required"
      ELSE IF len(data.password) < 8 THEN "Password must be at least 8 characters"
      ELSE ""

\* The error process_join_invite answers a body with, "" if it accepts it.
join_error(ut, coach, data) ==
  LET email == strip(lower(data.email))
      existing_user == find_user_by_email(ut, email)
  IN  IF email = "" \/ data.password = "" THEN "Email and password required"
      ELSE IF len(data.password) < 8 THEN "Password must be at least 8 characters"
      ELSE IF \E x \in existing_user : Truthy(ut[x].coach_id) /\ ut[x].coach_id # coach
      THEN "This account already has a different coach"
      ELSE ""

\* The id of the user process_join_invite links: the existing one, or a new row.
joining_user(ut, email) ==
  IF find_user_by_email(ut, email) # {}
  THEN CHOOSE x \in find_user_by_email(ut, email) : TRUE
  ELSE next_id.user

\* The User table after the first commit of process_join_invite.
users_joined(ut, coach, email, password) ==
  IF find_user_by_email(ut, email) # {}
  THEN [ut EXCEPT ![joining_user(ut, email)] =
          [@ EXCEPT !.coach_id = coach, !.subscribed = TRUE, !.subscription_type = "coach"]]
  ELSE Insert(ut, next_id.user,
         [set_password(new_user(email), password) EXCEPT
            !.subscribed = TRUE, !.subscription_type = "coach", !.coach_id = coach])

\* The invite after the second commit of process_join_invite.
accepted(row, athlete) == [row EXCEPT !.status = "accepted", !.athlete_id = athlete]

\* history: one more user linked through a token.
Linked(token, x) ==
  linked' = IF token \in DOMAIN linked
            THEN [linked EXCEPT ![token] = @ \cup {x}]
            ELSE Insert(linked, token, {x})

\* POST /join/<token>, a public route.
process_join_invite(token, data) ==
  /\ LET found == pending_invite(invites, token)
         i == CHOOSE x \in found : TRUE
         email == strip(lower(data.email))
     IN  IF found = {}
         THEN /\ RespondError("process_join_invite", 0, 400, token,
                              "Invalid or expired invitation link")
              /\ UNCHANGED <<users, invites, linked, next_id>>
         ELSE IF join_error(users, invites[i].coach_id, data) # ""
         THEN /\ RespondError("process_join_invite", 0, 400, token,
                              join_error(users, invites[i].coach_id, data))
              /\ UNCHANGED <<users, invites, linked, next_id>>
         ELSE /\ users' = users_joined(users, invites[i].coach_id, email, data.password)
              /\ next_id' = IF find_user_by_email(users, email) # {} THEN next_id
                            ELSE [next_id EXCEPT !.user = @ + 1]
              /\ invites' = [invites EXCEPT ![i] = accepted(@, joining_user(users, email))]
              /\ Linked(token, joining_user(users, email))
              /\ RespondLogin("process_join_invite", 0, 200, token,
                              joining_user(users, email))
  /\ UNCHANGED <<trackVars, progVars, billVars, inflight>>

\* Two coaches and a registered user without a coach; no invite yet.
InitInviteUsers ==
  (1 :> [registered("coach@x.com") EXCEPT !.subscribed = TRUE,
           !.subscription_type = "lifetime", !.is_coach = TRUE])
  @@ (2 :> [registered("other@x.com") EXCEPT !.subscribed = TRUE,
              !.subscription_type = "lifetime", !.is_coach = TRUE])
  @@ (3 :> registered("jane@x.com"))

InitInvites ==
  /\ users = InitInviteUsers
  /\ NoTracking
  /\ NoPrograms
  /\ NoInvites
  /\ next_id = [InitIds EXCEPT !.user = 4]
  /\ inflight = <<>>
  /\ last = NoResponse
  /\ NoHistory

NextInvites ==
  \/ \E u \in DOMAIN users :
       \E data \in BodiesFor(users[u].is_coach, InvitePayloads) : create_invite(u, data)
  \/ \E u \in DOMAIN users, i \in InviteIds : delete_invite(u, i)
  \/ \E token \in TokenInputs :
       \E data \in BodiesFor(pending_invite(invites, token) # {}, JoinPayloads) :
         process_join_invite(token, data)

SpecInvites == InitInvites /\ [][NextInvites]_vars

\* ------------------------------------------------- interleaved invites
\* process_join_invite up to its first commit: the user is linked (or made),
\* the invite is still pending.
process_join_invite_link(token, data) ==
  /\ LET found == pending_invite(invites, token)
         i == CHOOSE x \in found : TRUE
         email == strip(lower(data.email))
     IN  IF found = {}
         THEN /\ RespondError("process_join_invite", 0, 400, token,
                              "Invalid or expired invitation link")
              /\ UNCHANGED <<users, linked, next_id, inflight>>
         ELSE IF join_error(users, invites[i].coach_id, data) # ""
         THEN /\ RespondError("process_join_invite", 0, 400, token,
                              join_error(users, invites[i].coach_id, data))
              /\ UNCHANGED <<users, linked, next_id, inflight>>
         ELSE /\ Started("process_join_invite", 0, "accept", i,
                         joining_user(users, email), data)
              /\ users' = users_joined(users, invites[i].coach_id, email, data.password)
              /\ next_id' = [next_id EXCEPT
                   !.request = @ + 1,
                   !.user = IF find_user_by_email(users, email) # {} THEN @ ELSE @ + 1]
              /\ Linked(token, joining_user(users, email))
              /\ UNCHANGED last
  /\ UNCHANGED <<invites, trackVars, progVars, billVars>>

\* process_join_invite from `invite.status = 'accepted'` to its second commit:
\* an UPDATE of the row loaded at the start, by primary key.
process_join_invite_accept(q) ==
  /\ At(q, "process_join_invite", "accept")
  /\ invites' = [invites EXCEPT ![inflight[q].target] = accepted(@, inflight[q].number)]
  /\ RespondLogin("process_join_invite", 0, 200, invites[inflight[q].target].token,
                  inflight[q].number)
  /\ inflight' = Without(inflight, {q})
  /\ UNCHANGED <<users, linked, next_id, trackVars, progVars, billVars>>

\* Requests of several workers interleave at their commits.
NextInvitesInterleaved ==
  \/ \E u \in DOMAIN users :
       \E data \in BodiesFor(users[u].is_coach, InvitePayloads) : create_invite(u, data)
  \/ \E token \in TokenInputs :
       \E data \in BodiesFor(pending_invite(invites, token) # {}, JoinPayloads) :
         process_join_invite_link(token, data)
  \/ \E q \in DOMAIN inflight : process_join_invite_accept(q)

SpecInvitesInterleaved == InitInvites /\ [][NextInvitesInterleaved]_vars

\* ------------------------------------------------------------- billing
\* Checkout-completed events the webhook processes in one run.
MaxDeliveries == 3

\* The events Stripe sends: a checkout carries the customer's e-mail as typed,
\* a subscription event the customer id.
CheckoutEvents ==
  { [type |-> "checkout.session.completed", email |-> "Jane@X.com",
     customer |-> "cus_jane", subscription |-> sub, status |-> "None"] :
       sub \in {"None", "sub_year"} }
  \cup
  { [type |-> "checkout.session.completed", email |-> "sam@x.com",
     customer |-> "cus_sam", subscription |-> "sub_month", status |-> "None"] }

SubscriptionEvents ==
  { [type |-> "customer.subscription.deleted", email |-> "None",
     customer |-> "cus_jane", subscription |-> "None", status |-> "canceled"] }
  \cup
  { [type |-> "customer.subscription.updated", email |-> "None",
     customer |-> "cus_jane", subscription |-> "None", status |-> st] :
       st \in {"active", "past_due"} }

\* price['recurring']['interval'] of the subscription Stripe returns.
interval(subscription) == IF subscription = "sub_year" THEN "year" ELSE "month"

\* 'monthly' by default, 'annual' for a yearly price.
subscription_type_of(event) ==
  IF event.subscription # "None" /\ interval(event.subscription) = "year"
  THEN "annual" ELSE "monthly"

\* Mutant: the e-mail as the event carries it.
checkout_email_as_sent(event) == event.email

\* session_obj['customer_details']['email'].lower()
checkout_email(event) == lower(event.email)

\* os.urandom(24).hex(): a temporary password no request carries.
urandom == "urandom"

\* The User table after a checkout: the existing row updated, or a new row.
checkout_completed(ut, event) ==
  LET email == checkout_email(event)
      found == find_user_by_email(ut, email)
  IN  IF found # {}
      THEN [ut EXCEPT ![CHOOSE x \in found : TRUE] =
              [@ EXCEPT !.subscribed = TRUE, !.stripe_customer_id = event.customer,
                        !.subscription_type = subscription_type_of(event)]]
      ELSE Insert(ut, next_id.user,
             [set_password(new_user(email), urandom) EXCEPT !.subscribed = TRUE,
                !.stripe_customer_id = event.customer,
                !.subscription_type = subscription_type_of(event),
                !.needs_password_setup = TRUE])

\* User.query.filter_by(stripe_customer_id=customer_id)
find_user_by_customer(ut, customer) == {u \in DOMAIN ut : ut[u].stripe_customer_id = customer}

\* datetime.utcnow() as stored in subscription_end_date.
utcnow == "utcnow"

\* Mutant: an update that subscribes whatever the status.
subscription_changed_any_status(ut, event) ==
  LET found == find_user_by_customer(ut, event.customer)
  IN  IF found = {} THEN ut
      ELSE LET x == CHOOSE y \in found : TRUE
           IN  IF event.type = "customer.subscription.deleted"
               THEN [ut EXCEPT ![x].subscribed = FALSE, ![x].subscription_end_date = utcnow]
               ELSE [ut EXCEPT ![x].subscribed = TRUE]

\* The User table after a subscription event: a deletion clears subscribed
\* and stamps subscription_end_date, an update sets subscribed to
\* status == 'active'.
subscription_changed(ut, event) ==
  LET found == find_user_by_customer(ut, event.customer)
  IN  IF found = {} THEN ut
      ELSE LET x == CHOOSE y \in found : TRUE
           IN  IF event.type = "customer.subscription.deleted"
               THEN [ut EXCEPT ![x].subscribed = FALSE, ![x].subscription_end_date = utcnow]
               ELSE [ut EXCEPT ![x].subscribed = event.status = "active"]

\* history: the checkout events processed so far, counted by payload.
Deliveries(event) == IF event \in DOMAIN delivered THEN delivered[event] ELSE 0

RECURSIVE SumOf(_, _)
SumOf(f, S) ==
  IF S = {} THEN 0
  ELSE LET x == CHOOSE y \in S : TRUE IN f[x] + SumOf(f, S \ {x})

\* POST /webhook: signed is whether construct_event accepts the signature,
\* stripe_up whether stripe.Subscription.retrieve answers.
stripe_webhook(event, signed, stripe_up) ==
  /\ IF ~signed
     THEN /\ RespondError("stripe_webhook", 0, 400, 0, "Invalid signature")
          /\ UNCHANGED <<users, next_id, delivered>>
     ELSE IF event.type = "checkout.session.completed"
     THEN IF event.subscription # "None" /\ ~stripe_up
          THEN /\ RespondError("stripe_webhook", 0, 400, 0, "str(e)")
               /\ UNCHANGED <<users, next_id, delivered>>
          ELSE /\ SumOf(delivered, DOMAIN delivered) < MaxDeliveries
               /\ users' = checkout_completed(users, event)
               /\ next_id' = IF find_user_by_email(users, checkout_email(event)) # {}
                             THEN next_id ELSE [next_id EXCEPT !.user = @ + 1]
               /\ delivered' = IF event \in DOMAIN delivered
                               THEN [delivered EXCEPT ![event] = @ + 1]
                               ELSE Insert(delivered, event, 1)
               /\ Respond("stripe_webhook", 0, 200, 0)
     ELSE /\ users' = subscription_changed(users, event)
          /\ Respond("stripe_webhook", 0, 200, 0)
          /\ UNCHANGED <<next_id, delivered>>
  /\ UNCHANGED <<trackVars, progVars, coachVars, inflight>>

\* The bodies of POST /register.
RegisterPayloads ==
  { [email |-> e, password |-> pw] :
      e \in {"", "Jane@X.com "}, pw \in {"short", "long-enough"} }

\* POST /register by a caller who is not logged in.
register(data) ==
  /\ LET email == strip(lower(data.email))
     IN  IF email = "" \/ data.password = ""
         THEN /\ RespondError("register", 0, 400, 0, "Email and password required")
              /\ UNCHANGED <<users, next_id>>
         ELSE IF len(data.password) < 8
         THEN /\ RespondError("register", 0, 400, 0, "Password must be at least 8 characters")
              /\ UNCHANGED <<users, next_id>>
         ELSE IF find_user_by_email(users, email) # {}
         THEN /\ RespondError("register", 0, 400, 0, "Email already registered")
              /\ UNCHANGED <<users, next_id>>
         ELSE /\ users' = Insert(users, next_id.user,
                                   set_password(new_user(email), data.password))
              /\ next_id' = [next_id EXCEPT !.user = @ + 1]
              /\ Respond("register", 0, 200, next_id.user)
  /\ UNCHANGED <<trackVars, progVars, coachVars, billVars, inflight>>

\* An empty database.
InitBilling ==
  /\ users = <<>>
  /\ NoTracking
  /\ NoPrograms
  /\ NoInvites
  /\ next_id = InitIds
  /\ inflight = <<>>
  /\ last = NoResponse
  /\ NoHistory

NextBilling ==
  \/ \E data \in RegisterPayloads : register(data)
  \/ \E event \in CheckoutEvents \cup SubscriptionEvents, signed, stripe_up \in BOOLEAN :
       stripe_webhook(event, signed, stripe_up)

SpecBilling == InitBilling /\ [][NextBilling]_vars

\* ------------------------------------------------------- page routes
\* GET /tracker: the subscribe page for a user who is not subscribed.
tracker(u) ==
  /\ u \in DOMAIN users
  /\ IF ~users[u].subscribed
     THEN Respond("tracker", u, 302, 0)
     ELSE Respond("tracker", u, 200, 0)
  /\ UNCHANGED <<users, trackVars, progVars, coachVars, billVars, next_id, inflight>>

\* GET /dashboard
dashboard(u) ==
  /\ u \in DOMAIN users
  /\ IF ~users[u].subscribed
     THEN Respond("dashboard", u, 302, 0)
     ELSE Respond("dashboard", u, 200, 0)
  /\ UNCHANGED <<users, trackVars, progVars, coachVars, billVars, next_id, inflight>>

\* GET /programs: login_required and nothing else.
programs_page(u) ==
  /\ u \in DOMAIN users
  /\ Respond("programs_page", u, 200, 0)
  /\ UNCHANGED <<users, trackVars, progVars, coachVars, billVars, next_id, inflight>>

\* One registered user who has not paid.
InitAccess ==
  /\ users = InitUsers
  /\ NoTracking
  /\ NoPrograms
  /\ NoInvites
  /\ next_id = [InitIds EXCEPT !.user = 2]
  /\ inflight = <<>>
  /\ last = NoResponse
  /\ NoHistory

\* Billing events, codes and page requests, one at a time.
NextAccess ==
  \/ \E event \in CheckoutEvents \cup SubscriptionEvents, signed, stripe_up \in BOOLEAN :
       stripe_webhook(event, signed, stripe_up)
  \/ \E u \in DOMAIN users, code \in CodeInputs : access_code(u, code)
  \/ \E u \in DOMAIN users : tracker(u)
  \/ \E u \in DOMAIN users : dashboard(u)
  \/ \E u \in DOMAIN users : programs_page(u)

SpecAccess == InitAccess /\ [][NextAccess]_vars

\* ---------------------------------------------------------- ownership
\* The bodies of PUT /api/workouts/<id>.
WorkoutPayloads ==
  { [name |-> "b", complete |-> FALSE], [name |-> Absent, complete |-> TRUE] }

\* POST /api/workouts
create_workout(u) ==
  /\ u \in DOMAIN users
  /\ workouts' = Insert(workouts, next_id.workout, new_workout(u))
  /\ next_id' = [next_id EXCEPT !.workout = @ + 1]
  /\ commit("create_workout", u, 201, next_id.workout)
  /\ UNCHANGED <<users, sets, reps, progTables, coachVars, billVars, inflight>>

\* PUT /api/workouts/<workout_id>
update_workout(u, w, data) ==
  /\ u \in DOMAIN users
  /\ IF ~own_workout(u, w)
     THEN reject("update_workout", u, 404, 0) /\ UNCHANGED workouts
     ELSE /\ workouts' =
               [workouts EXCEPT ![w].name = IF data.name # Absent THEN data.name ELSE @,
                                ![w].completed = IF data.complete THEN TRUE ELSE @]
          /\ commit("update_workout", u, 200, w)
  /\ UNCHANGED <<users, sets, reps, progTables, coachVars, billVars, next_id, inflight>>

\* The ProgramSetLog rows once the Sets ss are deleted: the relationship
\* ProgramSetLog.workout_set has no delete cascade, the reference is emptied.
logs_without_sets(lt, ss) ==
  [l \in DOMAIN lt |->
     IF lt[l].workout_set_id \in ss THEN [lt[l] EXCEPT !.workout_set_id = NULL] ELSE lt[l]]

\* Mutant: Set.reps without the delete cascade.
reps_of_sets_uncascaded(rt, ss) == {}

\* The Rep rows the cascade Set.reps deletes with the Sets ss.
reps_of_sets(rt, ss) == {r \in DOMAIN rt : rt[r].set_id \in ss}

\* DELETE /api/workouts/<workout_id>, with the delete-orphan cascades
\* Workout.sets and Set.reps.
delete_workout(u, w) ==
  /\ u \in DOMAIN users
  /\ IF ~own_workout(u, w)
     THEN reject("delete_workout", u, 404, 0) /\ UNCHANGED <<trackVars, logs>>
     ELSE LET ss == SetsOf(sets, w)
          IN  /\ workouts' = Without(workouts, {w})
              /\ sets' = Without(sets, ss)
              /\ reps' = Without(reps, reps_of_sets(reps, ss))
              /\ logs' = logs_without_sets(logs, ss)
              /\ commit("delete_workout", u, 200, w)
  /\ UNCHANGED <<users, programs, days, exercises, coachVars, billVars, next_id, inflight>>

\* DELETE /api/workouts/<workout_id>/sets/<set_id>
delete_set(u, w, s) ==
  /\ u \in DOMAIN users
  /\ IF ~own_workout(u, w)
     THEN reject("delete_set", u, 404, 0) /\ UNCHANGED <<sets, reps, logs>>
     ELSE IF ~(s \in DOMAIN sets /\ sets[s].workout_id = w)
     THEN reject("delete_set", u, 404, 0) /\ UNCHANGED <<sets, reps, logs>>
     ELSE /\ sets' = Without(sets, {s})
          /\ reps' = Without(reps, reps_of_sets(reps, {s}))
          /\ logs' = logs_without_sets(logs, {s})
          /\ commit("delete_set", u, 200, s)
  /\ UNCHANGED <<users, workouts, programs, days, exercises, coachVars, billVars, next_id, inflight>>

\* The bodies the ownership specification sends with add_set and
\* add_rep_to_set: one rep with a depth.
OwnedSetPayloads ==
  { d \in SetPayloads : /\ ~d.empty /\ d.reps = <<[velocity |-> NULL, depth |-> 5]>>
                        /\ d.reps_completed = NULL }

OwnedRepPayloads == { d \in RepPayloads : d.depth = 5 }

\* ... and with the updates: a new name, and no video_url.
OwnedWorkoutPayloads == { d \in WorkoutPayloads : d.name # Absent }

\* ... with create_program no athlete_id: the programs are self-created.
OwnedProgramPayloads == { d \in ProgramPayloads : d.athlete_id = NULL }

OwnedNamePayloads == { d \in NamePayloads : d.name # Absent }

OwnedNewExercisePayloads == { d \in NewExercisePayloads : d.video_url = Absent }

OwnedExercisePayloads == { d \in ExercisePayloads : d.video_url = Absent }

\* The coach and her athlete of InitProgramUsers; the athlete has started a
\* workout (create_workout).
InitOwnership ==
  /\ users = InitProgramUsers
  /\ workouts = (1 :> new_workout(2))
  /\ sets = <<>>
  /\ reps = <<>>
  /\ NoPrograms
  /\ NoInvites
  /\ next_id = [InitIds EXCEPT !.user = 3, !.workout = 2]
  /\ inflight = <<>>
  /\ last = NoResponse
  /\ NoHistory

\* The handlers that write workouts, sets, reps, programs, days and exercises.
NextOwnership ==
  \/ \E u \in DOMAIN users : create_workout(u)
  \/ \E u \in DOMAIN users, w \in WorkoutIds :
       \E data \in OwnedWorkoutPayloads : update_workout(u, w, data)
  \/ \E u \in DOMAIN users, w \in WorkoutIds : delete_workout(u, w)
  \/ \E u \in DOMAIN users, w \in WorkoutIds, data \in OwnedSetPayloads : add_set(u, w, data)
  \/ \E u \in DOMAIN users, w \in WorkoutIds, s \in SetIds : delete_set(u, w, s)
  \/ \E u \in DOMAIN users, s \in SetIds, data \in OwnedRepPayloads : add_rep_to_set(u, s, data)
  \/ \E u \in DOMAIN users, s \in SetIds, r \in RepIds : delete_rep_from_set(u, s, r)
  \/ \E u \in DOMAIN users, data \in OwnedProgramPayloads : create_program(u, data)
  \/ \E u \in DOMAIN users, p \in ProgramIds :
       \E data \in OwnedNamePayloads :
         update_program(u, p, data)
  \/ \E u \in DOMAIN users, p \in ProgramIds : delete_program(u, p)
  \/ \E u \in DOMAIN users, p \in ProgramIds : add_program_day(u, p)
  \/ \E u \in DOMAIN users, p \in ProgramIds, d \in DayIds :
       \E data \in OwnedNamePayloads :
         update_program_day(u, p, d, data)
  \/ \E u \in DOMAIN users, p \in ProgramIds, d \in DayIds : delete_program_day(u, p, d)
  \/ \E u \in DOMAIN users, d \in DayIds :
       \E data \in OwnedNewExercisePayloads :
         add_exercise(u, d, data)
  \/ \E u \in DOMAIN users, e \in ExerciseIds :
       \E data \in OwnedExercisePayloads :
         update_exercise(u, e, data)
  \/ \E u \in DOMAIN users, e \in ExerciseIds : delete_exercise(u, e)

SpecOwnership == InitOwnership /\ [][NextOwnership]_vars

\* ------------------------------------------------------ coach endpoints
\* The users a request can name: every user's id, and one id that names none.
UserIds == DOMAIN users \cup {next_id.user}

\* The bodies of POST /api/coach/add-athlete.
AthletePayloads ==
  { [email |-> e] : e \in {"", "Jane@X.com ", "other@x.com", "nobody@x.com"} }

\* User.query.filter_by(coach_id=current_user.id).all()
athletes_of(ut, coach) == {a \in DOMAIN ut : ut[a].coach_id = coach}

\* GET /api/coach/athletes
get_coach_athletes(u) ==
  /\ u \in DOMAIN users
  /\ IF ~users[u].is_coach
     THEN Respond("get_coach_athletes", u, 403, 0)
     ELSE RespondShowing("get_coach_athletes", u, 200, 0, athletes_of(users, u))
  /\ UNCHANGED <<users, trackVars, progVars, coachVars, billVars, next_id, inflight>>

\* GET /api/coach/athletes/<athlete_id>
get_athlete_details(u, a) ==
  /\ u \in DOMAIN users
  /\ IF ~users[u].is_coach
     THEN Respond("get_athlete_details", u, 403, 0)
     ELSE IF ~athlete_of(users, u, a)
     THEN Respond("get_athlete_details", u, 404, 0)
     ELSE RespondShowing("get_athlete_details", u, 200, a, {a})
  /\ UNCHANGED <<users, trackVars, progVars, coachVars, billVars, next_id, inflight>>

\* POST /api/coach/add-athlete
add_athlete(u, data) ==
  /\ u \in DOMAIN users
  /\ LET email == strip(lower(data.email))
         found == find_user_by_email(users, email)
         athlete == CHOOSE x \in found : TRUE
     IN  IF ~users[u].is_coach
         THEN reject("add_athlete", u, 403, 0) /\ UNCHANGED users
         ELSE IF email = ""
         THEN reject("add_athlete", u, 400, 0) /\ UNCHANGED users
         ELSE IF found = {}
         THEN reject("add_athlete", u, 404, 0) /\ UNCHANGED users
         ELSE IF users[athlete].is_coach
         THEN /\ RespondError("add_athlete", u, 400, athlete, "Cannot add a coach as athlete")
              /\ UNCHANGED <<users, writes>>
         ELSE IF Truthy(users[athlete].coach_id)
         THEN /\ RespondError("add_athlete", u, 400, athlete, "Athlete already has a coach")
              /\ UNCHANGED <<users, writes>>
         ELSE /\ users' = [users EXCEPT ![athlete].coach_id = u]
              /\ commit("add_athlete", u, 200, athlete)
  /\ UNCHANGED <<trackVars, progTables, coachVars, billVars, next_id, inflight>>

\* DELETE /api/coach/remove-athlete/<athlete_id>
remove_athlete(u, a) ==
  /\ u \in DOMAIN users
  /\ IF ~users[u].is_coach
     THEN reject("remove_athlete", u, 403, 0) /\ UNCHANGED users
     ELSE IF ~athlete_of(users, u, a)
     THEN reject("remove_athlete", u, 404, 0) /\ UNCHANGED users
     ELSE /\ users' = [users EXCEPT ![a].coach_id = NULL]
          /\ commit("remove_athlete", u, 200, a)
  /\ UNCHANGED <<trackVars, progTables, coachVars, billVars, next_id, inflight>>

\* Two coaches and a registered user without a coach.
InitCoach ==
  /\ users = InitInviteUsers
  /\ NoTracking
  /\ NoPrograms
  /\ NoInvites
  /\ next_id = [InitIds EXCEPT !.user = 4]
  /\ inflight = <<>>
  /\ last = NoResponse
  /\ NoHistory

NextCoach ==
  \/ \E u \in DOMAIN users : get_coach_athletes(u)
  \/ \E u \in DOMAIN users, a \in UserIds : get_athlete_details(u, a)
  \/ \E u \in DOMAIN users, data \in AthletePayloads : add_athlete(u, data)
  \/ \E u \in DOMAIN users, a \in UserIds : remove_athlete(u, a)
  \/ \E u \in DOMAIN users, data \in ProgramPayloads : create_program(u, data)

SpecCoach == InitCoach /\ [][NextCoach]_vars

\* ---------------------------------------------------------- coach links
\* The bodies of POST /api/coach/invite that name an email.
LinkInvitePayloads == { d \in InvitePayloads : d.email = "new@x.com" }

\* The bodies of POST /join/<token> with a password that is long enough: the
\* email of a coach, of a registered user.
LinkJoinPayloads ==
  { [email |-> e, password |-> "long-enough"] : e \in {"coach@x.com", "Jane@X.com "} }

\* The handlers that write User.coach_id or User.is_coach.
NextLinks ==
  \/ \E u \in DOMAIN users, data \in AthletePayloads : add_athlete(u, data)
  \/ \E u \in DOMAIN users, a \in UserIds : remove_athlete(u, a)
  \/ \E u \in DOMAIN users, data \in LinkInvitePayloads : create_invite(u, data)
  \/ \E token \in TokenInputs, data \in LinkJoinPayloads : process_join_invite(token, data)
  \/ \E u \in DOMAIN users, code \in CodeInputs : access_code(u, code)

SpecLinks == InitCoach /\ [][NextLinks]_vars

\* ------------------------------------------------------------ cascades
LogIds == DOMAIN logs \cup {next_id.log}

\* ProgramSetLog.query.filter_by(id=log_id, program_exercise_id=exercise_id).first()
log_of_exercise(e, l) == l \in DOMAIN logs /\ logs[l].program_exercise_id = e

\* DELETE /api/exercises/<exercise_id>/log/<log_id>
delete_set_log(u, e, l) ==
  /\ u \in DOMAIN users
  /\ IF ~log_of_exercise(e, l)
     THEN reject("delete_set_log", u, 404, 0) /\ UNCHANGED logs
     ELSE IF logs[l].user_id # u
     THEN reject("delete_set_log", u, 403, l) /\ UNCHANGED logs
     ELSE /\ logs' = Without(logs, {l})
          /\ commit("delete_set_log", u, 200, l)
  /\ UNCHANGED <<users, trackVars, programs, days, exercises, coachVars, billVars, next_id, inflight>>

\* A user with a workout in progress and a program of its own with a day and
\* an exercise (create_workout, create_program, add_program_day, add_exercise).
InitCascade ==
  /\ users = InitUsers
  /\ workouts = (1 :> new_workout(1))
  /\ sets = <<>>
  /\ reps = <<>>
  /\ programs = (1 :> [coach_id |-> NULL, athlete_id |-> 1, name |-> "a"])
  /\ days = (1 :> [program_id |-> 1, day_number |-> 1, name |-> "a"])
  /\ exercises = (1 :> [program_day_id |-> 1, name |-> "a", order |-> 0, video_url |-> "None"])
  /\ logs = <<>>
  /\ writes = 0
  /\ NoInvites
  /\ next_id = [InitIds EXCEPT !.user = 2, !.workout = 2, !.program = 2, !.day = 2,
                               !.exercise = 2]
  /\ inflight = <<>>
  /\ last = NoResponse
  /\ NoHistory

\* The handlers that insert or delete a row with a parent, and the deletes of
\* the parents.
NextCascade ==
  \/ \E u \in DOMAIN users, w \in WorkoutIds, data \in OwnedSetPayloads : add_set(u, w, data)
  \/ \E u \in DOMAIN users, s \in SetIds, data \in OwnedRepPayloads : add_rep_to_set(u, s, data)
  \/ \E u \in DOMAIN users, s \in SetIds, r \in RepIds : delete_rep_from_set(u, s, r)
  \/ \E u \in DOMAIN users, w \in WorkoutIds, s \in SetIds : delete_set(u, w, s)
  \/ \E u \in DOMAIN users, w \in WorkoutIds : delete_workout(u, w)
  \/ \E u \in DOMAIN users, p \in ProgramIds : add_program_day(u, p)
  \/ \E u \in DOMAIN users, d \in DayIds, data \in OwnedNewExercisePayloads :
       add_exercise(u, d, data)
  \/ \E u \in DOMAIN users, e \in ExerciseIds, data \in LogPayloads : log_set(u, e, data)
  \/ \E u \in DOMAIN users, e \in ExerciseIds, l \in LogIds : delete_set_log(u, e, l)
  \/ \E u \in DOMAIN users, e \in ExerciseIds : delete_exercise(u, e)
  \/ \E u \in DOMAIN users, p \in ProgramIds, d \in DayIds : delete_program_day(u, p, d)
  \/ \E u \in DOMAIN users, p \in ProgramIds : delete_program(u, p)

SpecCascade == InitCascade /\ [][NextCascade]_vars

\* ------------------------------------------------------ anonymous callers
\* The routes of the application below the public pages (index, login,
\* register, subscribe, payment-success, webhook, join), by handler.
Routes ==
  {"logout", "tracker", "set_height", "access_code", "setup_password",
   "subscription_status", "dashboard",
   "get_workouts", "create_workout", "get_workout", "update_workout", "delete_workout",
   "add_set", "delete_set", "get_current_workout", "get_stats", "coach_dashboard",
   "get_coach_athletes", "get_athlete_details", "add_athlete", "remove_athlete",
   "get_coach_invites", "create_invite", "delete_invite", "programs_page", "get_programs",
   "create_program", "get_program", "update_program", "delete_program", "add_program_day",
   "update_program_day", "delete_program_day", "add_exercise", "update_exercise",
   "delete_exercise", "log_set", "update_set_log", "delete_set_log", "get_exercise_logs",
   "add_rep_to_set", "delete_rep_from_set", "get_dashboard_metrics",
   "update_dashboard_metrics", "get_lift_stats", "update_profile"}

\* Mutant: the set-log routes without the decorator.
login_required_but_logs ==
  Routes \ {"setup_password", "log_set", "update_set_log", "delete_set_log",
            "get_exercise_logs"}

\* The routes decorated with @login_required: all of them but setup_password,
\* which reads current_user.needs_password_setup undecorated.
login_required == Routes \ {"setup_password"}

\* A request without a session: Flask-Login redirects a decorated route to
\* login_view; an undecorated handler that reads a column of current_user
\* fails on the anonymous user object (500).
anonymous_request(op) ==
  /\ Respond(op, 0, IF op \in login_required THEN 302 ELSE 500, 0)
  /\ UNCHANGED <<users, trackVars, progVars, coachVars, billVars, next_id, inflight>>

\* GET /join/<token>: the page names the inviting coach of a pending invite.
join_via_invite(token) ==
  /\ LET found == pending_invite(invites, token)
     IN  IF found = {}
         THEN RespondError("join_via_invite", 0, 200, token,
                           "Invalid or expired invitation link")
         ELSE RespondShowing("join_via_invite", 0, 200, token,
                             {invites[i].coach_id : i \in found})
  /\ UNCHANGED <<users, trackVars, progVars, coachVars, billVars, next_id, inflight>>

NextAnonymous ==
  \/ \E u \in DOMAIN users, data \in LinkInvitePayloads : create_invite(u, data)
  \/ \E op \in Routes : anonymous_request(op)
  \/ \E token \in TokenInputs : join_via_invite(token)
  \/ \E token \in TokenInputs, data \in JoinPayloads : process_join_invite(token, data)

SpecAnonymous == InitInvites /\ [][NextAnonymous]_vars

\* ------------------------------------------------------------ fatigue drop
\* The bodies the tracker posts for a velocity set: the reps with their
\* velocities and the fatigue_drop the client computed from them.
FatiguePayloads ==
  { [empty |-> FALSE, reps |-> q, reps_completed |-> NULL, fatigue_drop |-> fd] :
      q \in { <<[velocity |-> 20, depth |-> NULL]>>,
              <<[velocity |-> 20, depth |-> NULL], [velocity |-> 10, depth |-> NULL]>> },
      fd \in {NULL, 50} }

NextFatigue ==
  \/ \E u \in DOMAIN users, w \in WorkoutIds, data \in FatiguePayloads : add_set(u, w, data)
  \/ \E u \in DOMAIN users, s \in SetIds, data \in RepPayloads : add_rep_to_set(u, s, data)
  \/ \E u \in DOMAIN users, s \in SetIds, r \in RepIds : delete_rep_from_set(u, s, r)

SpecFatigue == Init /\ [][NextFatigue]_vars

\* ---------------------------------------------------------------- profile
\* A JSON value that is not an integer (a string, a fraction), as a height.
NotAnInteger == -2

\* isinstance(height, int)
isinstance_int(v) == v \notin {NULL, NotAnInteger}

\* The bodies of POST /set_height and PUT /api/user/profile: no body, or an
\* object that may carry a name and may carry a height, which may be null,
\* not an integer, zero, negative or positive.
ProfilePayloads ==
  { [empty |-> TRUE, name |-> Absent, has_height |-> FALSE, height |-> NULL] }
  \cup
  { [empty |-> FALSE, name |-> n, has_height |-> FALSE, height |-> NULL] :
      n \in {Absent, "Jane"} }
  \cup
  { [empty |-> FALSE, name |-> n, has_height |-> TRUE, height |-> h] :
      n \in {Absent, "Jane"}, h \in {NULL, NotAnInteger, 0, -5, 70} }

\* POST /set_height
set_height(u, data) ==
  /\ u \in DOMAIN users
  /\ IF data.empty
     THEN Respond("set_height", u, 500, 0) /\ UNCHANGED users
     ELSE IF ~Truthy(data.height) \/ ~isinstance_int(data.height) \/ data.height <= 0
     THEN RespondError("set_height", u, 400, 0, "Valid height required") /\ UNCHANGED users
     ELSE /\ users' = [users EXCEPT ![u].height = data.height]
          /\ Respond("set_height", u, 200, u)
  /\ UNCHANGED <<trackVars, progVars, coachVars, billVars, next_id, inflight>>

\* PUT /api/user/profile
update_profile(u, data) ==
  /\ u \in DOMAIN users
  /\ IF data.empty
     THEN Respond("update_profile", u, 500, 0) /\ UNCHANGED users
     ELSE /\ users' = [users EXCEPT
                         ![u].name = IF data.name # Absent THEN data.name ELSE @,
                         ![u].height = IF data.has_height THEN data.height ELSE @]
          /\ Respond("update_profile", u, 200, u)
  /\ UNCHANGED <<trackVars, progVars, coachVars, billVars, next_id, inflight>>

NextProfile ==
  \/ \E u \in DOMAIN users, data \in ProfilePayloads : set_height(u, data)
  \/ \E u \in DOMAIN users, data \in ProfilePayloads : update_profile(u, data)

\* Two registered users, each with the default height.
InitProfile ==
  /\ users = (1 :> registered("jane@x.com")) @@ (2 :> registered("sam@x.com"))
  /\ NoTracking
  /\ NoPrograms
  /\ NoInvites
  /\ next_id = [InitIds EXCEPT !.user = 3]
  /\ inflight = <<>>
  /\ last = NoResponse
  /\ NoHistory

SpecProfile == InitProfile /\ [][NextProfile]_vars

\* --------------------------------------------------------------- sessions
\* The caller of a public route: a logged-in user, or nobody (0).
Callers == DOMAIN users \cup {0}

\* The bodies of POST /login.
LoginPayloads ==
  { [email |-> e, password |-> pw] :
      e \in {"", "Jane@X.com "}, pw \in {"long-enough", "guessed-pw"} }

\* POST /login
login(u, data) ==
  /\ u \in Callers
  /\ LET email == strip(lower(data.email))
         found == find_user_by_email(users, email)
     IN  IF u # 0
         THEN Respond("login", u, 302, 0) /\ UNCHANGED users
         ELSE IF email = "" \/ data.password = ""
         THEN RespondError("login", 0, 400, 0, "Email and password required")
              /\ UNCHANGED users
         ELSE IF \E x \in found : check_password(users[x], data.password)
         THEN LET x == CHOOSE y \in found : TRUE
              IN  /\ users' = [users EXCEPT ![x].last_login = utcnow]
                  /\ RespondLogin("login", 0, 200, x, x)
         ELSE RespondError("login", 0, 401, 0, "Invalid email or password")
              /\ UNCHANGED users
  /\ UNCHANGED <<trackVars, progVars, coachVars, billVars, next_id, inflight>>

\* The e-mail of the checkout session Stripe returns for a session_id.
SessionEmails == {"Jane@X.com", "sam@x.com"}

\* GET /payment-success: stripe_up is whether stripe.checkout.Session.retrieve
\* answers. With no user of that e-mail the function returns nothing.
payment_success(u, session_email, stripe_up) ==
  /\ u \in Callers
  /\ LET found == find_user_by_email(users, lower(session_email))
         x == CHOOSE y \in found : TRUE
     IN  IF ~stripe_up
         THEN Respond("payment_success", u, 200, 0)
         ELSE IF found = {}
         THEN Respond("payment_success", u, 500, 0)
         ELSE IF users[x].needs_password_setup
         THEN RespondLogin("payment_success", u, 302, x, x)
         ELSE Respond("payment_success", u, 302, x)
  /\ UNCHANGED <<users, trackVars, progVars, coachVars, billVars, next_id, inflight>>

\* The bodies of POST /setup-password.
PasswordPayloads == { [password |-> pw] : pw \in {"", "short", "chosen-pass"} }

\* POST /setup-password by a logged-in user.
setup_password(u, data) ==
  /\ u \in DOMAIN users
  /\ IF ~users[u].needs_password_setup
     THEN Respond("setup_password", u, 302, 0) /\ UNCHANGED users
     ELSE IF data.password = ""
     THEN RespondError("setup_password", u, 400, 0, "Password required")
          /\ UNCHANGED users
     ELSE IF len(data.password) < 8
     THEN RespondError("setup_password", u, 400, 0, "Password must be at least 8 characters")
          /\ UNCHANGED users
     ELSE /\ users' = [users EXCEPT
                         ![u] = [set_password(@, data.password) EXCEPT
                                   !.needs_password_setup = FALSE]]
          /\ Respond("setup_password", u, 200, u)
  /\ UNCHANGED <<trackVars, progVars, coachVars, billVars, next_id, inflight>>

\* The bodies of POST /join/<token> sent by somebody who knows an e-mail
\* address and no password.
GuessedJoinPayloads ==
  { [email |-> e, password |-> "guessed-pw"] : e \in {"Jane@X.com ", "new@x.com"} }

\* A checkout of somebody who never registered.
NewCustomerEvents == { e \in CheckoutEvents : e.email = "sam@x.com" }

\* Invites, redemptions, checkouts and the three routes that open or use a
\* session, one request at a time.
NextSessions ==
  \/ \E u \in DOMAIN users, data \in LinkInvitePayloads : create_invite(u, data)
  \/ \E token \in TokenInputs, data \in GuessedJoinPayloads : process_join_invite(token, data)
  \/ \E event \in NewCustomerEvents : stripe_webhook(event, TRUE, TRUE)
  \/ \E u \in Callers, data \in LoginPayloads : login(u, data)
  \/ \E u \in Callers, e \in SessionEmails, stripe_up \in BOOLEAN :
       payment_success(u, e, stripe_up)
  \/ \E u \in DOMAIN users, data \in PasswordPayloads : setup_password(u, data)

SpecSessions == InitInvites /\ [][NextSessions]_vars

\* ------------------------------------------------------------ linked logs
\* The bodies of POST /api/exercises/<id>/log that the tracker sends after a
\* velocity set: workout_set_id names a Set that exists.
LinkedLogPayloads ==
  { [set_number |-> NULL, velocity_tracked |-> TRUE, workout_set_id |-> x] :
      x \in DOMAIN sets }

\* jane with a workout in progress, sam with a program he wrote for himself.
InitLogs ==
  /\ users = (1 :> registered("jane@x.com")) @@ (2 :> registered("sam@x.com"))
  /\ workouts = (1 :> new_workout(1))
  /\ sets = <<>>
  /\ reps = <<>>
  /\ programs = (1 :> [coach_id |-> NULL, athlete_id |-> 2, name |-> "a"])
  /\ days = (1 :> [program_id |-> 1, day_number |-> 1, name |-> "a"])
  /\ exercises = (1 :> [program_day_id |-> 1, name |-> "a", order |-> 0, video_url |-> "None"])
  /\ logs = <<>>
  /\ writes = 0
  /\ NoInvites
  /\ next_id = [InitIds EXCEPT !.user = 3, !.workout = 2, !.program = 2, !.day = 2,
                               !.exercise = 2]
  /\ inflight = <<>>
  /\ last = NoResponse
  /\ NoHistory

NextLogs ==
  \/ \E u \in DOMAIN users, w \in WorkoutIds, data \in OwnedSetPayloads : add_set(u, w, data)
  \/ \E u \in DOMAIN users, e \in ExerciseIds, data \in LogPayloads \cup LinkedLogPayloads :
       log_set(u, e, data)
  \/ \E u \in DOMAIN users, e \in ExerciseIds, l \in LogIds : delete_set_log(u, e, l)
  \/ \E u \in DOMAIN users, w \in WorkoutIds, x \in SetIds : delete_set(u, w, x)
  \/ \E u \in DOMAIN users, w \in WorkoutIds : delete_workout(u, w)

SpecLogs == InitLogs /\ [][NextLogs]_vars

\* ----------------------------------------------------- after the unlinking
\* The access check of get_program and get_exercise_logs: the athlete or the
\* coach of the program; the negation of the 403 condition.
may_read_program(p, u) == ~(programs[p].athlete_id # u /\ programs[p].coach_id # u)

\* GET /api/programs/<program_id>
get_program(u, p) ==
  /\ u \in DOMAIN users
  /\ IF p \notin DOMAIN programs
     THEN Respond("get_program", u, 404, 0)
     ELSE IF ~may_read_program(p, u)
     THEN Respond("get_program", u, 403, p)
     ELSE RespondShowing("get_program", u, 200, p, {programs[p].athlete_id})
  /\ UNCHANGED <<users, trackVars, progVars, coachVars, billVars, next_id, inflight>>

\* GET /api/exercises/<exercise_id>/logs: a coach is shown the logs of every
\* user, anybody else its own.
get_exercise_logs(u, e) ==
  /\ u \in DOMAIN users
  /\ IF e \notin DOMAIN exercises
     THEN Respond("get_exercise_logs", u, 404, 0)
     ELSE IF ~may_read_program(program_of_exercise(e), u)
     THEN Respond("get_exercise_logs", u, 403, e)
     ELSE RespondShowing("get_exercise_logs", u, 200, e,
            {logs[l].user_id : l \in {k \in LogsOf(logs, {e}) :
                                        users[u].is_coach \/ logs[k].user_id = u}})
  /\ UNCHANGED <<users, trackVars, progVars, coachVars, billVars, next_id, inflight>>

\* The bodies of POST /api/programs that name the athlete of InitProgramUsers.
AthleteProgramPayloads == { d \in ProgramPayloads : d.athlete_id = 2 }

\* A coach writes a program for her athlete, the athlete logs sets, the coach
\* removes the athlete, and both go on using the program.
NextUnlink ==
  \/ \E u \in DOMAIN users, data \in AthleteProgramPayloads : create_program(u, data)
  \/ \E u \in DOMAIN users, a \in DOMAIN users : remove_athlete(u, a)
  \/ \E u \in DOMAIN users, p \in ProgramIds : get_program(u, p)
  \/ \E u \in DOMAIN users, p \in ProgramIds, data \in OwnedNamePayloads :
       update_program(u, p, data)
  \/ \E u \in DOMAIN users, p \in ProgramIds : delete_program(u, p)
  \/ \E u \in DOMAIN users, p \in ProgramIds : add_program_day(u, p)
  \/ \E u \in DOMAIN users, d \in DayIds, data \in OwnedNewExercisePayloads :
       add_exercise(u, d, data)
  \/ \E u \in DOMAIN users, e \in ExerciseIds, data \in LogPayloads : log_set(u, e, data)
  \/ \E u \in DOMAIN users, e \in ExerciseIds : get_exercise_logs(u, e)

SpecUnlink == InitPrograms /\ [][NextUnlink]_vars

\* ------------------------------------------------------------- claims
\* The rows that carry a value: None is absent, 0 is a value.
present_rows(f, fld) == {i \in DOMAIN f : f[i][fld] # NULL}

Completed(ops) == last.op \in ops /\ last.status \in {200, 201}

\* C1: after add_set, add_rep_to_set or delete_rep_from_set completes on a Set,
\* avg/min/max velocity are the mean, minimum and maximum of the velocities of
\* the Set's reps that have one, avg_depth is the mean of the depths of the reps
\* that have one, and a field is absent exactly when no rep carries the value.
C1_AggregatesOfPresentValues ==
  Completed({"add_set", "add_rep_to_set", "delete_rep_from_set"}) =>
    LET rows == RepRows(reps, last.id)
        vel == present_rows(rows, "velocity")
        dep == present_rows(rows, "depth")
    IN  /\ sets[last.id].avg_velocity = mean_or_none(rows, vel, "velocity")
        /\ sets[last.id].min_velocity = min_or_none(rows, vel, "velocity")
        /\ sets[last.id].max_velocity = max_or_none(rows, vel, "velocity")
        /\ sets[last.id].avg_depth = mean_or_none(rows, dep, "depth")

AllAbsent(row) ==
  /\ row.avg_depth = NULLF
  /\ row.avg_velocity = NULLF
  /\ row.min_velocity = NULL
  /\ row.max_velocity = NULL

\* C2: once delete_rep_from_set has removed the last rep of a Set, the Set's
\* avg_depth, avg_velocity, min_velocity and max_velocity are all absent.
C2_AllRepsDeletedAllAbsent ==
  (Completed({"delete_rep_from_set"}) /\ RepsOf(reps, last.id) = {}) =>
    AllAbsent(sets[last.id])

\* A Set built by add_set from two reps or more has lost all of them.
C2_Witness ==
  /\ Completed({"delete_rep_from_set"})
  /\ reps = <<>>
  /\ next_id.rep > 2
  /\ next_id.set = 2
  /\ sets[last.id].reps_completed = 0

\* C3: a Set's reps_completed equals the number of its Rep rows.
C3_RepsCompletedIsRowCount ==
  \A s \in DOMAIN sets : sets[s].reps_completed = Cardinality(RepsOf(reps, s))

Distinct(f, ids, fld) ==
  \A i, j \in ids : i # j => f[i][fld] # f[j][fld]

\* C4: appends that run concurrently on one parent assign pairwise distinct
\* sequence numbers: set_number within a workout (a contiguous run from 1)
\* and rep_number within a set.
C4_SequenceNumbersDistinct ==
  /\ \A w \in DOMAIN workouts :
       /\ Distinct(sets, SetsOf(sets, w), "set_number")
       /\ {sets[s].set_number : s \in SetsOf(sets, w)} = 1 .. Cardinality(SetsOf(sets, w))
  /\ \A s \in DOMAIN sets : Distinct(reps, RepsOf(reps, s), "rep_number")

Aggregates(row) ==
  [avg_depth |-> row.avg_depth, avg_velocity |-> row.avg_velocity,
   min_velocity |-> row.min_velocity, max_velocity |-> row.max_velocity]

\* C9: in every committed state, also between the two commits of a running
\* add_rep_to_set or delete_rep_from_set, a Set's four aggregates are the ones
\* the recalculation gives for its committed Rep rows.
C9_AggregatesNeverStale ==
  \A s \in DOMAIN sets : Aggregates(sets[s]) = recalculate(RepRows(reps, s))

\* The exercises whose video_url this step sets (a new row that carries one)
\* or modifies (a row that stays, with another one).
video_url_changed ==
  {e \in DOMAIN exercises' :
     IF e \in DOMAIN exercises THEN exercises'[e].video_url # exercises[e].video_url
     ELSE exercises'[e].video_url # "None"}

\* C5: every step that sets or modifies an exercise's video_url is an
\* add_exercise or update_exercise whose principal has is_coach = true at that
\* moment; a principal without is_coach never changes one, also on its own
\* program.
C5_VideoUrlOnlyByCoach ==
  [][video_url_changed # {} =>
       /\ last'.op \in {"add_exercise", "update_exercise"}
       /\ users[last'.user].is_coach]_vars

\* An athlete who is no coach has updated an exercise of a program it owns with
\* the body that carries name "c" and a video_url: the name is stored, the
\* video_url is not.
C5_Witness ==
  /\ last.op = "update_exercise" /\ last.status = 200
  /\ ~users[last.user].is_coach
  /\ programs[program_of_exercise(last.id)].athlete_id = last.user
  /\ exercises[last.id].name = "c"
  /\ exercises[last.id].video_url = "None"

\* The program a request names through its path, 0 if it names no row.
program_of_target(op, id) ==
  CASE op \in {"update_program", "delete_program", "add_program_day"} ->
         IF id \in DOMAIN programs THEN id ELSE 0
    [] op \in {"update_program_day", "delete_program_day", "add_exercise"} ->
         IF id \in DOMAIN days THEN days[id].program_id ELSE 0
    [] op \in {"update_exercise", "delete_exercise", "log_set"} ->
         IF id \in DOMAIN exercises THEN program_of_exercise(id) ELSE 0
    [] OTHER -> 0

\* A program's row with the rows of its days and of its exercises.
tree_of(pt, dt, et, p) ==
  LET ds == DaysOf(dt, p)
  IN  [program |-> IF p \in DOMAIN pt THEN <<pt[p]>> ELSE <<>>,
       days |-> [d \in ds |-> dt[d]],
       exercises |-> [e \in ExercisesOf(et, ds) |-> et[e]]]

\* C8: for a Program with a coach C, a step requested by anyone else (its
\* athlete A included) leaves the program, its days and its exercises as they
\* were; such a request to update or delete one of them is answered 403 and
\* changes no program table at all; log_set by A on one of its exercises is
\* answered 201 and stores a log of A for that exercise.
C8_OnlyCoachEditsCoachProgram ==
  [][\A p \in DOMAIN programs :
       (Truthy(programs[p].coach_id) /\ programs[p].coach_id # last'.user) =>
         /\ tree_of(programs', days', exercises', p) = tree_of(programs, days, exercises, p)
         /\ (/\ last'.op \in {"update_program", "delete_program", "update_program_day",
                              "delete_program_day", "update_exercise", "delete_exercise"}
             /\ program_of_target(last'.op, last'.id) = p) =>
               (last'.status = 403 /\ UNCHANGED progTables)
         /\ (/\ last'.op = "log_set"
             /\ program_of_target(last'.op, last'.id) = p
             /\ last'.user = programs[p].athlete_id) =>
               /\ last'.status = 201
               /\ \E l \in DOMAIN logs' \ DOMAIN logs :
                    /\ logs'[l].program_exercise_id = last'.id
                    /\ logs'[l].user_id = last'.user]_vars

\* The athlete of a coach's program has logged a set on one of its exercises,
\* and its request to delete that exercise has just been answered 403.
C8_Witness ==
  /\ last.op = "delete_exercise" /\ last.status = 403
  /\ last.id \in DOMAIN exercises
  /\ Truthy(programs[program_of_exercise(last.id)].coach_id)
  /\ programs[program_of_exercise(last.id)].athlete_id = last.user
  /\ \E l \in DOMAIN logs :
       logs[l].program_exercise_id = last.id /\ logs[l].user_id = last.user

\* Every user one token has linked to a coach.
linked_through(lt, token) == IF token \in DOMAIN lt THEN lt[token] ELSE {}

\* The invite that carries a token, as a set.
not_pending(token) == invite_by_token(invites, token) \ pending_invite(invites, token)

\* C6: a process_join_invite that succeeds on a pending invite leaves it
\* accepted, with athlete_id the user it linked, whose coach_id is the invite's
\* coach_id; every later call with that token is answered 400 'Invalid or
\* expired invitation link' and changes no user and no invite.
C6_SecondJoinRejected ==
  [][last'.op = "process_join_invite" =>
       /\ last'.status = 200 =>
            \E i \in pending_invite(invites, last'.id) :
              /\ invites'[i].status = "accepted"
              /\ invites'[i].athlete_id \in DOMAIN users'
              /\ users'[invites'[i].athlete_id].coach_id = invites[i].coach_id
              /\ linked_through(linked', last'.id) = {invites'[i].athlete_id}
       /\ pending_invite(invites, last'.id) = {} =>
            /\ last'.status = 400
            /\ last'.error = "Invalid or expired invitation link"
            /\ UNCHANGED <<users, invites>>]_vars

\* A token was used by one user, and the call that came after it was turned
\* down as invalid or expired.
C6_Witness ==
  /\ last.op = "process_join_invite" /\ last.status = 400
  /\ last.error = "Invalid or expired invitation link"
  /\ \E i \in not_pending(last.id) :
       /\ invites[i].status = "accepted"
       /\ linked_through(linked, last.id) = {invites[i].athlete_id}
       /\ users[invites[i].athlete_id].coach_id = invites[i].coach_id

\* Users whose stored e-mail is an event's e-mail, whatever the case.
users_of(ut, event) == {u \in DOMAIN ut : lower(ut[u].email) = lower(event.email)}

\* C7: a processed checkout-completed event, also the second and every later
\* delivery of one payload, leaves exactly one User row with its e-mail, and
\* that row has subscribed = true.
C7_OneSubscribedUserPerCheckout ==
  [][\A event \in DOMAIN delivered' :
       delivered'[event] > Deliveries(event) =>
         /\ Cardinality(users_of(users', event)) = 1
         /\ \A u \in users_of(users', event) :
              users'[u].subscribed /\ users'[u].email = lower(event.email)]_vars

\* The checkout of Jane@X.com has just been processed for the second time or
\* later, for a user who had registered before.
C7_Witness ==
  /\ last.op = "stripe_webhook" /\ last.status = 200
  /\ \E event \in DOMAIN delivered :
       /\ delivered[event] >= 2
       /\ event.email = "Jane@X.com"
       /\ \E u \in users_of(users, event) :
            users[u].subscribed /\ ~users[u].needs_password_setup

\* C10: under any interleaving of process_join_invite calls for one token, at
\* most one user is linked to the coach through that token.
C10_TokenLinksAtMostOneUser ==
  \A token \in DOMAIN linked : Cardinality(linked[token]) <= 1

\* C11: the tracker, dashboard and programs routes serve a logged-in principal
\* exactly when it has subscribed = true.
C11_PagesGatedBySubscription ==
  last.op \in {"tracker", "dashboard", "programs_page"} =>
    (last.status = 200 <=> users[last.user].subscribed)

\* C12: a User's subscribed flag changes value only in a step of the billing
\* webhook (checkout completed, subscription deleted or updated) or of a valid
\* access or coach code.
C12_SubscribedChangesOnlyByBillingOrCode ==
  [][\A u \in DOMAIN users \cap DOMAIN users' :
       users'[u].subscribed # users[u].subscribed =>
         last'.op \in {"stripe_webhook", "access_code"}]_vars

\* C13: a request that submits the valid access code leaves its user with
\* subscribed = true and subscription_type = lifetime, one that submits the
\* valid coach code also with is_coach = true, whatever the user's state before.
C13_ValidCodeGivesLifetime ==
  [][\A u \in DOMAIN users, code \in CodeInputs :
       (access_code(u, code) /\ upper(code) \in {upper(ACCESS_CODE), upper(COACH_CODE)}) =>
         /\ users'[u].subscribed
         /\ users'[u].subscription_type = "lifetime"
         /\ upper(code) = upper(COACH_CODE) => users'[u].is_coach]_vars

\* C14: a checkout-completed event processed for an e-mail whose User is
\* already subscribed creates no User and changes no field of the existing one.
C14_CheckoutOfSubscribedIsNoOp ==
  [][\A event \in DOMAIN delivered' :
       (/\ delivered'[event] > Deliveries(event)
        /\ \E u \in find_user_by_email(users, checkout_email(event)) : users[u].subscribed) =>
         users' = users]_vars

\* The workouts of user o with their sets and reps, and the programs o
\* created for itself (coach_id null) with their days and exercises.
owned_by(wt, st, rt, pt, dt, et, o) ==
  LET ws == {w \in DOMAIN wt : wt[w].user_id = o}
      ss == {x \in DOMAIN st : st[x].workout_id \in ws}
      ps == {p \in DOMAIN pt : pt[p].coach_id = NULL /\ pt[p].athlete_id = o}
      ds == {d \in DOMAIN dt : dt[d].program_id \in ps}
  IN  [workouts |-> [w \in ws |-> wt[w]],
       sets |-> [x \in ss |-> st[x]],
       reps |-> [r \in {y \in DOMAIN rt : rt[y].set_id \in ss} |-> rt[r]],
       programs |-> [p \in ps |-> pt[p]],
       days |-> [d \in ds |-> dt[d]],
       exercises |-> [e \in ExercisesOf(et, ds) |-> et[e]]]

\* The workout of another user than u, and the self-created program of another.
of_another_workout(u, w) == w \in DOMAIN workouts /\ workouts[w].user_id # u
of_another_program(u, p) ==
  p \in DOMAIN programs /\ programs[p].coach_id = NULL /\ programs[p].athlete_id # u

\* The answer of a rejected request, which wrote no row.
rejected_unchanged ==
  last'.status \in {403, 404} /\ UNCHANGED <<trackVars, progTables>>

\* The request just answered came from u under the name op.
answered(op, u) == last'.op = op /\ last'.user = u

\* C15: a step requested by a principal leaves what every other user owns (its
\* workouts with their sets and reps, its self-created programs with their
\* days and exercises) as it was, rows created included; and a request that
\* names the workout, set, rep, self-created program, day or exercise of
\* another user is answered 403 or 404 and changes no row at all.  (A step
\* that is a rejection without a change satisfies both at once.)
C15_OnlyOwnerWritesOwnedRows ==
  [][\/ rejected_unchanged
     \/ /\ \A o \in DOMAIN users :
             o # last'.user =>
               owned_by(workouts', sets', reps', programs', days', exercises', o)
                 = owned_by(workouts, sets, reps, programs, days, exercises, o)
        /\ \A u \in DOMAIN users :
             /\ \A w \in DOMAIN workouts :
                  of_another_workout(u, w) =>
                    /\ (/\ answered("update_workout", u)
                        /\ \E data \in OwnedWorkoutPayloads : update_workout(u, w, data))
                         => rejected_unchanged
                    /\ (answered("delete_workout", u) /\ delete_workout(u, w))
                         => rejected_unchanged
                    /\ (/\ answered("add_set", u)
                        /\ \E data \in OwnedSetPayloads : add_set(u, w, data))
                         => rejected_unchanged
                    /\ (answered("delete_set", u) /\ \E x \in SetIds : delete_set(u, w, x))
                         => rejected_unchanged
             /\ \A x \in DOMAIN sets :
                  of_another_workout(u, sets[x].workout_id) =>
                    /\ (answered("delete_set", u) /\ \E w \in WorkoutIds : delete_set(u, w, x))
                         => rejected_unchanged
                    /\ (/\ answered("add_rep_to_set", u)
                        /\ \E data \in OwnedRepPayloads : add_rep_to_set(u, x, data))
                         => rejected_unchanged
                    /\ (/\ answered("delete_rep_from_set", u)
                        /\ \E r \in RepIds : delete_rep_from_set(u, x, r))
                         => rejected_unchanged
             /\ \A p \in DOMAIN programs :
                  of_another_program(u, p) =>
                    /\ (/\ answered("update_program", u)
                        /\ \E data \in OwnedNamePayloads : update_program(u, p, data))
                         => rejected_unchanged
                    /\ (answered("delete_program", u) /\ delete_program(u, p))
                         => rejected_unchanged
                    /\ (answered("add_program_day", u) /\ add_program_day(u, p))
                         => rejected_unchanged
             /\ \A d \in DOMAIN days :
                  of_another_program(u, days[d].program_id) =>
                    /\ (/\ answered("update_program_day", u)
                        /\ \E q \in ProgramIds, data \in OwnedNamePayloads :
                             update_program_day(u, q, d, data))
                         => rejected_unchanged
                    /\ (/\ answered("delete_program_day", u)
                        /\ \E q \in ProgramIds : delete_program_day(u, q, d))
                         => rejected_unchanged
                    /\ (/\ answered("add_exercise", u)
                        /\ \E data \in OwnedNewExercisePayloads : add_exercise(u, d, data))
                         => rejected_unchanged
             /\ \A e \in DOMAIN exercises :
                  of_another_program(u, program_of_exercise(e)) =>
                    /\ (/\ answered("update_exercise", u)
                        /\ \E data \in OwnedExercisePayloads : update_exercise(u, e, data))
                         => rejected_unchanged
                    /\ (answered("delete_exercise", u) /\ delete_exercise(u, e))
                         => rejected_unchanged]_vars

\* A user has a workout with a set and a rep and a self-created program with a
\* day and an exercise; another principal has just asked to delete the rep and
\* was answered 403.
C15_Witness ==
  /\ last.op = "delete_rep_from_set" /\ last.status = 403
  /\ last.id \in DOMAIN sets
  /\ workouts[sets[last.id].workout_id].user_id # last.user
  /\ RepsOf(reps, last.id) # {}
  /\ \E e \in DOMAIN exercises :
       /\ programs[program_of_exercise(e)].coach_id = NULL
       /\ programs[program_of_exercise(e)].athlete_id = workouts[sets[last.id].workout_id].user_id

\* No table has changed.
tables_unchanged == UNCHANGED <<users, trackVars, progTables, invites>>

\* The user a exists and its coach_id is c.
coached_by(c, a) == a \in DOMAIN users /\ users[a].coach_id = c

\* C16: when the principal c is a coach, the body of get_coach_athletes and of
\* get_athlete_details carries only users whose coach_id is c, remove_athlete
\* changes only such a user, create_program makes a program only for such a
\* user; and each of the three that names a user whose coach_id is not c (or no
\* user) is answered 404 and changes nothing.
C16_CoachReachesOwnAthletesOnly ==
  [][LET c == last'.user
     IN  (c \in DOMAIN users /\ users[c].is_coach) =>
           /\ last'.op \in {"get_coach_athletes", "get_athlete_details"} =>
                \A a \in last'.shown : coached_by(c, a)
           /\ last'.op = "remove_athlete" =>
                \A a \in DOMAIN users : users'[a] # users[a] => coached_by(c, a)
           /\ last'.op = "create_program" =>
                \A p \in DOMAIN programs' \ DOMAIN programs :
                  coached_by(c, programs'[p].athlete_id)
           /\ \A a \in UserIds :
                ~coached_by(c, a) =>
                  /\ (last'.op = "get_athlete_details" /\ get_athlete_details(c, a))
                       => (last'.status = 404 /\ tables_unchanged)
                  /\ (last'.op = "remove_athlete" /\ remove_athlete(c, a))
                       => (last'.status = 404 /\ tables_unchanged)
                  /\ (/\ last'.op = "create_program"
                      /\ \E data \in ProgramPayloads :
                           data.athlete_id = a /\ create_program(c, data))
                       => (last'.status = 404 /\ tables_unchanged)]_vars

\* A coach has just been answered 404 by remove_athlete while the only athlete
\* there is belongs to another coach, who has made a program for it.
C16_Witness ==
  /\ last.op = "remove_athlete" /\ last.status = 404
  /\ users[last.user].is_coach
  /\ athletes_of(users, last.user) = {}
  /\ \E a \in DOMAIN users, p \in DOMAIN programs :
       /\ Truthy(users[a].coach_id)
       /\ programs[p].athlete_id = a /\ programs[p].coach_id = users[a].coach_id

\* The answer "access denied" of a request of which nothing was applied.
denied_unchanged == last'.status = 403 /\ tables_unchanged

\* C17: a request of u to update or delete a program u may not write, or to
\* add, update or delete a day or an exercise of a program u cannot edit, is
\* answered 403 and changes no table; so is add_exercise or update_exercise of
\* a user who is not a coach with a body that carries video_url.
C17_RuleViolationsDenied ==
  [][\A u \in DOMAIN users :
       /\ \A p \in DOMAIN programs :
            ~may_write_program(p, u) =>
              /\ (/\ answered("update_program", u)
                  /\ \E data \in NamePayloads : update_program(u, p, data))
                   => denied_unchanged
              /\ (answered("delete_program", u) /\ delete_program(u, p)) => denied_unchanged
       /\ \A d \in DOMAIN days :
            (~can_edit(days[d].program_id, u) \/ ~users[u].is_coach) =>
              /\ (/\ answered("add_exercise", u)
                  /\ \E data \in NewExercisePayloads :
                       /\ ~can_edit(days[d].program_id, u) \/ data.video_url # Absent
                       /\ add_exercise(u, d, data))
                   => denied_unchanged
       /\ \A e \in DOMAIN exercises :
            (~can_edit(program_of_exercise(e), u) \/ ~users[u].is_coach) =>
              /\ (/\ answered("update_exercise", u)
                  /\ \E data \in ExercisePayloads :
                       /\ ~can_edit(program_of_exercise(e), u) \/ data.video_url # Absent
                       /\ update_exercise(u, e, data))
                   => denied_unchanged
              /\ (/\ answered("delete_exercise", u)
                  /\ ~can_edit(program_of_exercise(e), u)
                  /\ delete_exercise(u, e))
                   => denied_unchanged]_vars

\* C18: no User has coach_id equal to its own id.
C18_NoUserCoachesItself ==
  \A u \in DOMAIN users : users[u].coach_id # u

\* C19: no User has both is_coach = true and a coach_id.
C19_NoCoachHasCoach ==
  \A u \in DOMAIN users : ~(users[u].is_coach /\ users[u].coach_id # NULL)

\* Every Set, Rep, ProgramDay, ProgramExercise and ProgramSetLog has its parent.
parents_exist ==
  /\ \A x \in DOMAIN sets : sets[x].workout_id \in DOMAIN workouts
  /\ \A r \in DOMAIN reps : reps[r].set_id \in DOMAIN sets
  /\ \A d \in DOMAIN days : days[d].program_id \in DOMAIN programs
  /\ \A e \in DOMAIN exercises : exercises[e].program_day_id \in DOMAIN days
  /\ \A l \in DOMAIN logs : logs[l].program_exercise_id \in DOMAIN exercises

\* C20: once delete_workout has deleted a workout, none of the Sets it had and
\* none of their Reps remains; once delete_program has deleted a program, none
\* of the days, exercises and logs it had remains; and in every state each
\* Set, Rep, ProgramDay, ProgramExercise and ProgramSetLog has its parent.
C20_DeletesCascade ==
  /\ []parents_exist
  /\ [][/\ (last'.op = "delete_workout" /\ last'.status = 200) =>
             LET ss == SetsOf(sets, last'.id)
             IN  /\ last'.id \notin DOMAIN workouts'
                 /\ SetsOf(sets', last'.id) = {}
                 /\ ss \cap DOMAIN sets' = {}
                 /\ \A r \in DOMAIN reps : reps[r].set_id \in ss => r \notin DOMAIN reps'
        /\ (last'.op = "delete_program" /\ last'.status = 200) =>
             LET ds == DaysOf(days, last'.id)
                 es == ExercisesOf(exercises, ds)
             IN  /\ last'.id \notin DOMAIN programs'
                 /\ DaysOf(days', last'.id) = {}
                 /\ ds \cap DOMAIN days' = {}
                 /\ es \cap DOMAIN exercises' = {}
                 /\ \A l \in DOMAIN logs :
                      logs[l].program_exercise_id \in es => l \notin DOMAIN logs']_vars

\* A set with a rep and a log were made, and delete_workout and delete_program
\* have emptied every table, delete_program last.
C20_Witness ==
  /\ last.op = "delete_program" /\ last.status = 200
  /\ next_id.set > 1 /\ next_id.rep > 1 /\ next_id.log > 1
  /\ writes = 4
  /\ workouts = <<>> /\ sets = <<>> /\ reps = <<>>
  /\ programs = <<>> /\ days = <<>> /\ exercises = <<>> /\ logs = <<>>

\* The operations on workouts, sets, reps, programs, days, exercises, set
\* logs, user profiles and coach/athlete links.
resource_operations ==
  {"set_height", "update_profile", "setup_password",
   "get_workouts", "create_workout", "get_workout", "update_workout", "delete_workout",
   "add_set", "delete_set", "get_current_workout", "get_stats",
   "add_rep_to_set", "delete_rep_from_set",
   "get_coach_athletes", "get_athlete_details", "add_athlete", "remove_athlete",
   "get_coach_invites", "create_invite", "delete_invite",
   "get_programs", "create_program", "get_program", "update_program", "delete_program",
   "add_program_day", "update_program_day", "delete_program_day",
   "add_exercise", "update_exercise", "delete_exercise",
   "log_set", "update_set_log", "delete_set_log", "get_exercise_logs"}

\* C21: a request of the anonymous principal outside the invite flow (GET and
\* POST /join/<token>) is never answered 200 or 201, carries no user's data
\* and changes no table; on a route of workouts, sets, reps, programs, days,
\* exercises, set logs, profiles and coach links other than setup_password it
\* is redirected to the login page.
C21_AnonymousDenied ==
  [][(last'.user = 0 /\ last'.op \notin {"join_via_invite", "process_join_invite"}) =>
       /\ last'.status \notin {200, 201}
       /\ last'.shown = {}
       /\ tables_unchanged
       /\ last'.op \in resource_operations \ {"setup_password"} => last'.status = 302]_vars

\* The anonymous principal has joined through an invite, and its log_set has
\* just been redirected to the login page.
C21_Witness ==
  /\ last.user = 0 /\ last.op = "log_set" /\ last.status = 302
  /\ \E i \in DOMAIN invites : invites[i].status = "accepted"

\* C22: the set_numbers of the Sets of every workout are exactly 1..n for its
\* n Sets, and the rep_numbers of the Reps of every Set exactly 1..m for its
\* m Reps.
C22_NumbersContiguous ==
  /\ \A w \in DOMAIN workouts :
       {sets[x].set_number : x \in SetsOf(sets, w)} = 1 .. Cardinality(SetsOf(sets, w))
  /\ \A x \in DOMAIN sets :
       {reps[r].rep_number : r \in RepsOf(reps, x)} = 1 .. Cardinality(RepsOf(reps, x))

\* C23: a reading of exactly 0 counts as present: a Set that has a rep with
\* velocity 0 and no rep with another velocity has avg, min and max velocity 0,
\* and a Set that has a rep with depth 0 and no rep with another depth has
\* avg_depth 0; neither is absent.
C23_ZeroReadingsPresent ==
  \A x \in DOMAIN sets :
    LET rows == RepRows(reps, x)
        only_zero(fld) == /\ \E r \in DOMAIN rows : rows[r][fld] = 0
                          /\ \A r \in DOMAIN rows : rows[r][fld] \in {NULL, 0}
    IN  /\ only_zero("velocity") =>
             /\ sets[x].avg_velocity = Frac(0, 1)
             /\ sets[x].min_velocity = 0
             /\ sets[x].max_velocity = 0
        /\ only_zero("depth") => sets[x].avg_depth = Frac(0, 1)


\* C24: fatigue_drop is recomputed with the other aggregates: once
\* add_rep_to_set or delete_rep_from_set completes on a Set none of whose
\* current reps carries a velocity, the Set has no fatigue_drop left over from
\* the reps it had before.
C24_FatigueDropRecomputed ==
  Completed({"add_rep_to_set", "delete_rep_from_set"}) =>
    (present_rows(RepRows(reps, last.id), "velocity") = {}
       => sets[last.id].fatigue_drop = NULL)

\* C25: a signed subscription event for a customer id that a User carries
\* leaves that User unsubscribed with subscription_end_date set when it is a
\* deletion, and subscribed exactly when its status is 'active' when it is an
\* update; a subscription event for a customer id no User carries changes no
\* User.
C25_SubscriptionEventsSetSubscribed ==
  [][\A event \in SubscriptionEvents :
       (last'.op = "stripe_webhook" /\ stripe_webhook(event, TRUE, TRUE)) =>
         LET found == find_user_by_customer(users, event.customer)
         IN  /\ found = {} => users' = users
             /\ \A x \in found :
                  IF event.type = "customer.subscription.deleted"
                  THEN /\ ~users'[x].subscribed
                       /\ users'[x].subscription_end_date # "None"
                  ELSE users'[x].subscribed <=> event.status = "active"]_vars

\* A customer's subscription was deleted after its checkout.
C25_Witness ==
  /\ last.op = "stripe_webhook"
  /\ \E x \in DOMAIN users :
       /\ users[x].stripe_customer_id = "cus_jane"
       /\ ~users[x].subscribed
       /\ users[x].subscription_end_date # "None"

\* C26: process_join_invite on a pending invite, with a password of 8
\* characters or more and the e-mail of an existing User: when that User has
\* a coach other than the inviting one the request is answered 400 and nothing
\* changes (the User keeps coach_id, subscribed and subscription_type, the
\* invite stays pending); when that User has no coach its coach_id becomes
\* invite.coach_id.
C26_DifferentCoachRejected ==
  [][\A token \in TokenInputs, data \in JoinPayloads :
       (last'.op = "process_join_invite" /\ process_join_invite(token, data)) =>
         \A i \in DOMAIN invites, x \in DOMAIN users :
           (/\ invites[i].token = token /\ invites[i].status = "pending"
            /\ users[x].email = strip(lower(data.email))
            /\ Len(data.password) >= 8) =>
             /\ users[x].coach_id \notin {NULL, invites[i].coach_id} =>
                  /\ last'.status = 400
                  /\ users' = users
                  /\ invites' = invites
             /\ users[x].coach_id = NULL =>
                  users'[x].coach_id = invites[i].coach_id]_vars

\* An invite was refused to an account that another coach had linked before.
C26_Witness ==
  /\ last.op = "process_join_invite"
  /\ last.error = "This account already has a different coach"
  /\ \E i \in DOMAIN invites, x \in DOMAIN users :
       /\ invites[i].token = last.id /\ invites[i].status = "pending"
       /\ users[x].coach_id \notin {NULL, invites[i].coach_id}

\* C27: every User's height is a positive integer.
C27_HeightPositive ==
  \A u \in DOMAIN users : isinstance_int(users[u].height) /\ users[u].height > 0

\* C28: a response opens a session for a User that existed before the
\* request only when the request is a login that carried that User's password,
\* or a payment_success for a User with needs_password_setup; so
\* process_join_invite opens no session for an existing User.
C28_SessionsNeedPassword ==
  [][\A x \in DOMAIN users :
       last'.login = x =>
         \/ /\ last'.op = "login"
            /\ \E data \in LoginPayloads :
                 check_password(users[x], data.password) /\ login(0, data)
         \/ /\ last'.op = "payment_success"
            /\ users[x].needs_password_setup]_vars

\* C29: every ProgramSetLog with a workout_set_id references a Set that
\* exists and whose Workout belongs to the log's user.
C29_LogReferencesOwnSet ==
  \A l \in DOMAIN logs :
    logs[l].workout_set_id # NULL =>
      /\ logs[l].workout_set_id \in DOMAIN sets
      /\ workouts[sets[logs[l].workout_set_id].workout_id].user_id = logs[l].user_id

\* C30: a coach reaches an athlete's program only while the link lasts: no
\* get_program, update_program, delete_program, add_program_day or
\* get_exercise_logs by a user other than the program's athlete succeeds when
\* the athlete's coach_id is not that user, as it is after remove_athlete.
C30_AccessEndsWithLink ==
  [][\A c \in DOMAIN users, p \in DOMAIN programs :
       (/\ last'.user = c
        /\ last'.status \in {200, 201}
        /\ programs[p].athlete_id # c
        /\ \/ last'.op \in {"get_program", "update_program", "delete_program"}
                /\ last'.id = p
           \/ last'.op = "add_program_day" /\ last'.id \in DOMAIN days'
                /\ days'[last'.id].program_id = p
           \/ last'.op = "get_exercise_logs" /\ last'.id \in DOMAIN exercises
                /\ program_of_exercise(last'.id) = p)
         => coached_by(c, programs[p].athlete_id)]_vars

====
